---- MODULE Spec2Model ----
(***************************************************************************)
(* A model of the CSV loader of the vintage-clothing warehouse             *)
(* (src/load_csv_data.py) against the schema of src/database_setup.py.     *)
(*                                                                         *)
(* The warehouse is the set of committed rows of every table.  A row is    *)
(* identified by its primary key: either a key the CSV file supplies       *)
(* (1..MaxKey) or a value of the table's SERIAL sequence, drawn when the   *)
(* file leaves the key column empty.  Sequence values are taken to differ  *)
(* from the keys the files supply, so sequence-keyed rows are counted.     *)
(* INSERT ... ON CONFLICT DO NOTHING never changes a stored row, so a row  *)
(* is kept by its key alone.                                               *)
(***************************************************************************)
EXTENDS Integers, Sequences, FiniteSets, TLC

VARIABLES
    db,             \* committed rows: [table -> [keys, gen]]
    idx,            \* load_all_data: 0 = not running, i = about to load load_order[i]
    success_count,  \* load_all_data's success_count
    attempts,       \* the tables load_table was called for in this run, in call order
    ret,            \* load_all_data's return value: "none" until it returns
    checked,        \* check_data_integrity ran at the end of the last run
    last,           \* what the last load_table call did
    rows_read,      \* rows read from the CSV files so far in this run
    call,           \* SpecReload: the table and file load_table is called with
    cell,           \* SpecClean: the value of one DataFrame cell, as read
    column,         \* SpecClean: the <<table, column>> the cell belongs to
    cleaned,        \* SpecClean: the cell after clean_dataframe
    empty_raises,   \* SpecClean: the installed numpy raises on bool(empty array)
    submitted,      \* SpecClean: the value load_table hands to execute_values
    warehouse_schema,   \* SpecSync: the columns and constraints the tables have
    finalizes,          \* SpecSync: the runtime closes an unreferenced connection
    remote,             \* SpecSync: the records the Square API holds
    social_config,      \* SpecSync: which social credentials are configured
    ext,                \* SpecSync: committed external identifiers, by table
    job,                \* SpecSync: the job the scheduler is running
    pc,                 \* SpecSync: the job's position
    success,            \* SquareDataSync.full_sync's success
    success_results,    \* full_synchronization's success_results
    tasks,              \* SocialMediaSync.full_sync's tasks, by platform
    open_conns,         \* units of the running job that left their connection open
    conn_users,         \* the job's <<task that opened, task that used>> connection uses
    analytics_executed, \* analytics statements executed by the running job
    analytics_committed, \* analytics statements of the job whose effect is committed
    unit_result,        \* what the last unit of work did
    jobs_run,           \* jobs started so far
    loads,              \* SpecSync: load_table calls made so far
    job_result,         \* what the running job returned, once it has returned
    environ,            \* the environment after load_dotenv, by variable
    program,            \* the entry point the process runs, with its arguments
    main_pc,            \* the position of the entry point's main code
    exit_code,          \* the exit code of the process; Running until it exits
    connects,           \* psycopg2.connect calls made by DataLoader.connect_db
    loader_conn,        \* DataLoader's conn and cursor attributes
    insighted,          \* generate_insights ran
    jobs_failed         \* the scheduler's jobs that returned a failure

loaderVars == <<db, idx, success_count, attempts, ret, checked, last, rows_read, call>>

cleanVars == <<cell, column, cleaned, empty_raises, submitted>>

syncVars == <<warehouse_schema, finalizes, remote, social_config, ext, job, pc, success,
              success_results, tasks, open_conns, conn_users, analytics_executed,
              analytics_committed,
              unit_result, jobs_run, loads, job_result>>

mainVars == <<environ, program, main_pc, exit_code, connects, loader_conn, insighted,
              jobs_failed>>

vars == <<db, idx, success_count, attempts, ret, checked, last, rows_read, call,
          cell, column, cleaned, empty_raises, submitted,
          warehouse_schema, finalizes, remote, social_config, ext, job, pc, success,
          success_results, tasks, open_conns, conn_users, analytics_executed,
          analytics_committed,
          unit_result, jobs_run, loads, job_result,
          environ, program, main_pc, exit_code, connects, loader_conn, insighted,
          jobs_failed>>

(***************************************************************************)
(* Bounds.                                                                 *)
(***************************************************************************)
MaxKey == 1

\* rows in all the files one run of load_all_data reads
MaxRunRows == 3

\* rows in the warehouse before a direct load_table call (SpecReload)
MaxInitRows == 1

\* page_size of execute_values.  The source passes 100; the model pages by
\* PageSize so that a file of MaxFileLen rows spans more than one statement.
PageSize == 1

MaxFileLen == PageSize + 1

NULL == 0

Keys == 1..MaxKey

(***************************************************************************)
(* The schema (create_tables) and the load order (load_all_data).          *)
(***************************************************************************)
Tables ==
    { "locations", "customers", "inventory_items", "inventory_location_tracking",
      "orders", "order_items", "payments", "social_media_accounts",
      "social_media_posts", "post_items_featured", "social_media_metrics",
      "market_performance", "social_media_attribution" }

\* <<referencing table, referenced table>> for every REFERENCES clause
ForeignKeys ==
    { <<"inventory_location_tracking", "inventory_items">>,
      <<"inventory_location_tracking", "locations">>,
      <<"orders", "customers">>,
      <<"orders", "locations">>,
      <<"order_items", "orders">>,
      <<"order_items", "inventory_items">>,
      <<"payments", "orders">>,
      <<"social_media_posts", "social_media_accounts">>,
      <<"post_items_featured", "social_media_posts">>,
      <<"post_items_featured", "inventory_items">>,
      <<"social_media_metrics", "social_media_posts">>,
      <<"market_performance", "locations">>,
      <<"social_media_attribution", "customers">>,
      <<"social_media_attribution", "orders">>,
      <<"social_media_attribution", "social_media_posts">> }

ParentsOf == [ t \in Tables |-> { fk[2] : fk \in { x \in ForeignKeys : x[1] = t } } ]

Parents(t) == ParentsOf[t]

\* a plausible slip: payments listed before the orders it references
LoadOrderPaymentsFirst ==
    << "locations", "customers", "inventory_items", "social_media_accounts",
       "payments", "orders", "social_media_posts", "market_performance",
       "order_items", "social_media_metrics", "post_items_featured" >>

LoadOrder ==
    << "locations", "customers", "inventory_items", "social_media_accounts",
       "orders", "payments", "social_media_posts", "market_performance",
       "order_items", "social_media_metrics", "post_items_featured" >>

total_count == Len(LoadOrder)

Loaded == { LoadOrder[i] : i \in 1..Len(LoadOrder) }

Pos(s, t) == CHOOSE i \in 1..Len(s) : s[i] = t

(***************************************************************************)
(* CSV files.  A file is missing, unreadable (pd.read_csv or the cleaning  *)
(* raises), or a sequence of rows; a row carries its key (NULL: the key    *)
(* column is empty or absent) and one reference per foreign key.           *)
(***************************************************************************)
RowsOf(t) == [ id : 0..MaxKey, refs : [Parents(t) -> 0..MaxKey] ]

SeqsUpTo(S, n) == UNION { [1..k -> S] : k \in 0..n }

FilesOf ==
    [ t \in Tables |->
        { [kind |-> "missing", rows |-> <<>>], [kind |-> "corrupt", rows |-> <<>>] }
        \cup { [kind |-> "csv", rows |-> rs] : rs \in SeqsUpTo(RowsOf(t), MaxFileLen) } ]

Files(t) == FilesOf[t]

EmptyDb == [ t \in Tables |-> [keys |-> {}, gen |-> 0] ]

RECURSIVE StoredFrom(_, _)
StoredFrom(d, i) ==
    IF i > Len(LoadOrder) THEN 0
    ELSE Cardinality(d[LoadOrder[i]].keys) + d[LoadOrder[i]].gen + StoredFrom(d, i + 1)

Stored(d) == StoredFrom(d, 1)

(***************************************************************************)
(* The database: one INSERT ... VALUES ... ON CONFLICT DO NOTHING          *)
(* statement, run inside the connection's open transaction.                *)
(***************************************************************************)
\* a plausible slip: a plain INSERT, where a duplicate key raises
OnConflictRaise(cur) == [raised |-> TRUE, tx |-> cur, new |-> 0]

\* ON CONFLICT DO NOTHING: the conflicting row is dropped, nothing raised
OnConflict(cur) == [raised |-> FALSE, tx |-> cur, new |-> 0]

\* REFERENCES: every non-NULL reference of an inserted row names a stored key
FkHolds(t, row, cur) ==
    \A p \in Parents(t) : row.refs[p] = NULL \/ row.refs[p] \in cur[p].keys

InsertRow(t, row, cur) ==
    IF row.id # NULL /\ row.id \in cur[t].keys THEN OnConflict(cur)
    ELSE IF ~FkHolds(t, row, cur) THEN [raised |-> TRUE, tx |-> cur, new |-> 0]
    ELSE IF row.id = NULL
         THEN [raised |-> FALSE, new |-> 1,
               tx |-> [cur EXCEPT ![t].gen = @ + 1]]
         ELSE [raised |-> FALSE, new |-> 1,
               tx |-> [cur EXCEPT ![t].keys = @ \cup {row.id}]]

\* one statement: atomic, so a raise leaves the transaction as it was before it
RECURSIVE StatementFrom(_, _, _, _, _)
StatementFrom(t, chunk, i, cur, n) ==
    IF i > Len(chunk) THEN [raised |-> FALSE, tx |-> cur, new |-> n]
    ELSE LET r == InsertRow(t, chunk[i], cur) IN
         IF r.raised THEN [raised |-> TRUE, tx |-> cur, new |-> 0]
         ELSE StatementFrom(t, chunk, i + 1, r.tx, n + r.new)

Statement(t, chunk, tx) ==
    LET r == StatementFrom(t, chunk, 1, tx, 0) IN
    IF r.raised THEN [raised |-> TRUE, tx |-> tx, new |-> 0] ELSE r

Min(a, b) == IF a < b THEN a ELSE b

\* psycopg2.extras.execute_values: one statement per page of page_size rows
RECURSIVE ExecuteValues(_, _, _, _)
ExecuteValues(t, rows, page_size, tx) ==
    IF rows = <<>> THEN [raised |-> FALSE, tx |-> tx, calls |-> <<>>, new |-> 0]
    ELSE LET n == Min(page_size, Len(rows))
             s == Statement(t, SubSeq(rows, 1, n), tx)
         IN  IF s.raised
             THEN [raised |-> TRUE, tx |-> tx, calls |-> <<"execute">>, new |-> 0]
             ELSE LET rest == ExecuteValues(t, SubSeq(rows, n + 1, Len(rows)),
                                            page_size, s.tx)
                  IN  [raised |-> rest.raised, tx |-> rest.tx,
                       calls |-> <<"execute">> \o rest.calls,
                       new |-> s.new + rest.new]

\* a plausible slip: the connection in autocommit mode, nothing to undo
RollbackKeepsWork(committed, tx) == tx

\* conn.rollback(): the uncommitted work of the transaction is discarded
Rollback(committed, tx) == committed

\* conn.commit()
Commit(committed, tx) == tx

(***************************************************************************)
(* DataLoader.load_table                                                   *)
(***************************************************************************)
\* a plausible slip: the missing file handled by the except branch
FileMissingRollsBack(d) ==
    [ok |-> FALSE, db |-> Rollback(d, d), outcome |-> "missing",
     calls |-> <<"rollback">>, discarded |-> 0]

\* if not os.path.exists(csv_path): return False
FileMissing(d) ==
    [ok |-> FALSE, db |-> d, outcome |-> "missing", calls |-> <<>>, discarded |-> 0]

LoadTable(t, f, d) ==
    IF f.kind = "missing" THEN FileMissing(d)
    ELSE IF f.kind = "corrupt"
    THEN [ok |-> FALSE, db |-> Rollback(d, d), outcome |-> "error",
          calls |-> <<"rollback">>, discarded |-> 0]
    ELSE LET r == ExecuteValues(t, f.rows, PageSize, d) IN
         IF r.raised
         THEN [ok |-> FALSE, db |-> Rollback(d, r.tx), outcome |-> "error",
               calls |-> r.calls \o <<"rollback">>,
               discarded |-> Stored(r.tx) - Stored(d)]
         ELSE [ok |-> TRUE, db |-> Commit(d, r.tx), outcome |-> "ok",
               calls |-> r.calls \o <<"commit">>, discarded |-> 0]

NoCall == [table |-> "none", outcome |-> "none", calls |-> <<>>, discarded |-> 0]

Observed(t, r) ==
    [table |-> t, outcome |-> r.outcome, calls |-> r.calls, discarded |-> r.discarded]

NotObserved == [table |-> "none", file |-> [kind |-> "missing", rows |-> <<>>], nth |-> 0]

(***************************************************************************)
(* Cell values.  A value is a record [tag, s, n, items, np]: None, the     *)
(* float NaN pandas reads for an empty cell, a string (s: its characters), *)
(* an int or a bool (n; np: a numpy scalar rather than a Python object), a *)
(* list or a tuple (items), a dict (items: its <<key, value>> pairs in     *)
(* insertion order, as tuples), or a raised exception.                     *)
(***************************************************************************)
None == [tag |-> "none", s |-> <<>>, n |-> 0, items |-> <<>>, np |-> FALSE]

NaN == [tag |-> "nan", s |-> <<>>, n |-> 0, items |-> <<>>, np |-> FALSE]

Raised == [tag |-> "raise", s |-> <<>>, n |-> 0, items |-> <<>>, np |-> FALSE]

NotCleaned == [tag |-> "pending", s |-> <<>>, n |-> 0, items |-> <<>>, np |-> FALSE]

PyStr(chars) == [tag |-> "str", s |-> chars, n |-> 0, items |-> <<>>, np |-> FALSE]

PyInt(k, numpy) == [tag |-> "int", s |-> <<>>, n |-> k, items |-> <<>>, np |-> numpy]

PyBool(b, numpy) ==
    [tag |-> "bool", s |-> <<>>, n |-> IF b THEN 1 ELSE 0, items |-> <<>>, np |-> numpy]

PyList(xs) == [tag |-> "list", s |-> <<>>, n |-> 0, items |-> xs, np |-> FALSE]

PyTuple(xs) == [tag |-> "tuple", s |-> <<>>, n |-> 0, items |-> xs, np |-> FALSE]

PyDict(pairs) == [tag |-> "dict", s |-> <<>>, n |-> 0, items |-> pairs, np |-> FALSE]

(***************************************************************************)
(* ast.literal_eval on the characters [ ] ' , a 1 and the space.           *)
(***************************************************************************)
Fail == [ok |-> FALSE, val |-> None, pos |-> 0]

RECURSIVE SkipWs(_, _)
SkipWs(s, i) == IF i <= Len(s) /\ s[i] = " " THEN SkipWs(s, i + 1) ELSE i

\* the index of the quote closing a string whose first character is at i
RECURSIVE CloseQuote(_, _)
CloseQuote(s, i) ==
    IF i > Len(s) THEN 0 ELSE IF s[i] = "'" THEN i ELSE CloseQuote(s, i + 1)

\* the index of the three quotes closing a triple-quoted string, searched from i
RECURSIVE CloseTriple(_, _)
CloseTriple(s, i) ==
    IF i + 2 > Len(s) THEN 0
    ELSE IF s[i] = "'" /\ s[i + 1] = "'" /\ s[i + 2] = "'" THEN i
    ELSE CloseTriple(s, i + 1)

RECURSIVE DigitsEnd(_, _)
DigitsEnd(s, i) == IF i <= Len(s) /\ s[i] = "1" THEN DigitsEnd(s, i + 1) ELSE i

RECURSIVE Decimal(_, _, _)
Decimal(s, i, j) == IF i >= j THEN 0 ELSE Decimal(s, i, j - 1) * 10 + 1

\* the integer literal s[i..j-1]; a name character right after it is an error
IntLiteral(s, i, j) ==
    IF j <= Len(s) /\ s[j] = "a" THEN Fail
    ELSE [ok |-> TRUE, val |-> PyInt(Decimal(s, i, j), FALSE), pos |-> SkipWs(s, j)]

RECURSIVE ParseStrings(_, _, _)
RECURSIVE StringClosed(_, _, _, _, _)
RECURSIVE StringsNext(_, _, _)

\* adjacent string literals, concatenated; i is at an opening quote
ParseStrings(s, i, acc) ==
    IF i + 2 <= Len(s) /\ s[i + 1] = "'" /\ s[i + 2] = "'"
    THEN StringClosed(s, acc, i + 3, CloseTriple(s, i + 3), 3)
    ELSE StringClosed(s, acc, i + 1, CloseQuote(s, i + 1), 1)

\* the literal whose text starts at from and whose w closing quotes are at j
StringClosed(s, acc, from, j, w) ==
    IF j = 0 THEN Fail
    ELSE StringsNext(s, acc \o SubSeq(s, from, j - 1), SkipWs(s, j + w))

StringsNext(s, chars, k) ==
    IF k <= Len(s) /\ s[k] = "'" THEN ParseStrings(s, k, chars)
    ELSE [ok |-> TRUE, val |-> PyStr(chars), pos |-> k]

RECURSIVE ParseExpr(_, _)
RECURSIVE ParseItems(_, _, _)
RECURSIVE ItemParsed(_, _, _)

\* one expression starting at i; pos is the next token's index
ParseExpr(s, i) ==
    IF i > Len(s) THEN Fail
    ELSE IF s[i] = "[" THEN ParseItems(s, SkipWs(s, i + 1), <<>>)
    ELSE IF s[i] = "'" THEN ParseStrings(s, i, <<>>)
    ELSE IF s[i] = "1" THEN IntLiteral(s, i, DigitsEnd(s, i))
    ELSE Fail

\* the items of a list display after its "[", up to and including its "]"
ParseItems(s, i, acc) ==
    IF i > Len(s) THEN Fail
    ELSE IF s[i] = "]" THEN [ok |-> TRUE, val |-> PyList(acc), pos |-> SkipWs(s, i + 1)]
    ELSE ItemParsed(s, acc, ParseExpr(s, i))

\* after the item e of a list display: a comma, or the closing bracket
ItemParsed(s, acc, e) ==
    IF ~e.ok \/ e.pos > Len(s) THEN Fail
    ELSE IF s[e.pos] = ","
         THEN ParseItems(s, SkipWs(s, e.pos + 1), Append(acc, e.val))
    ELSE IF s[e.pos] = "]"
         THEN [ok |-> TRUE, val |-> PyList(Append(acc, e.val)),
               pos |-> SkipWs(s, e.pos + 1)]
    ELSE Fail

RECURSIVE ParseTuple(_, _, _)
RECURSIVE TupleItemParsed(_, _, _)

\* the expressions of a top-level tuple after a comma
ParseTuple(s, i, acc) ==
    IF i > Len(s) THEN [ok |-> TRUE, val |-> PyTuple(acc), pos |-> i]
    ELSE TupleItemParsed(s, acc, ParseExpr(s, i))

TupleItemParsed(s, acc, e) ==
    IF ~e.ok THEN Fail
    ELSE IF e.pos > Len(s)
         THEN [ok |-> TRUE, val |-> PyTuple(Append(acc, e.val)), pos |-> e.pos]
    ELSE IF s[e.pos] = ","
         THEN ParseTuple(s, SkipWs(s, e.pos + 1), Append(acc, e.val))
    ELSE Fail

\* the value of a parse, or Raised
ValueOf(e) == IF e.ok THEN e.val ELSE Raised

\* the whole text: one expression e, or a tuple of them
Evaluated(s, e) ==
    IF ~e.ok THEN Raised
    ELSE IF e.pos > Len(s) THEN e.val
    ELSE IF s[e.pos] = ","
         THEN ValueOf(ParseTuple(s, SkipWs(s, e.pos + 1), <<e.val>>))
    ELSE Raised

\* ast.literal_eval(value): the value, or Raised (ValueError, SyntaxError)
LiteralEval(s) == Evaluated(s, ParseExpr(s, SkipWs(s, 1)))

\* json.loads(value) on the characters { } " : [ ] , 1 and the space (other
\* characters only inside strings): numbers, strings, arrays and objects
RECURSIVE JsonValue(_, _)
RECURSIVE JsonArray(_, _)
RECURSIVE JsonItems(_, _, _)
RECURSIVE JsonItemParsed(_, _, _)
RECURSIVE JsonObject(_, _)
RECURSIVE JsonPairs(_, _, _)
RECURSIVE JsonKeyParsed(_, _, _)
RECURSIVE JsonPairParsed(_, _, _, _)

\* the index of the double quote closing a string whose first character is at i
RECURSIVE CloseDoubleQuote(_, _)
CloseDoubleQuote(s, i) ==
    IF i > Len(s) THEN 0 ELSE IF s[i] = "\"" THEN i ELSE CloseDoubleQuote(s, i + 1)

\* the string whose text starts at from and whose closing quote is at j
JsonStringClosed(s, from, j) ==
    IF j = 0 THEN Fail
    ELSE [ok |-> TRUE, val |-> PyStr(SubSeq(s, from, j - 1)), pos |-> SkipWs(s, j + 1)]

JsonString(s, i) == JsonStringClosed(s, i + 1, CloseDoubleQuote(s, i + 1))

\* dict[key] = value: a key already there keeps its place
RECURSIVE SetItem(_, _, _, _)
SetItem(pairs, i, key, value) ==
    IF i > Len(pairs) THEN Append(pairs, PyTuple(<<key, value>>))
    ELSE IF pairs[i].items[1] = key
         THEN [pairs EXCEPT ![i] = PyTuple(<<key, value>>)]
    ELSE SetItem(pairs, i + 1, key, value)

JsonValue(s, i) ==
    IF i > Len(s) THEN Fail
    ELSE IF s[i] = "[" THEN JsonArray(s, SkipWs(s, i + 1))
    ELSE IF s[i] = "{" THEN JsonObject(s, SkipWs(s, i + 1))
    ELSE IF s[i] = "\"" THEN JsonString(s, i)
    ELSE IF s[i] = "1" THEN IntLiteral(s, i, DigitsEnd(s, i))
    ELSE Fail

JsonArray(s, j) ==
    IF j <= Len(s) /\ s[j] = "]"
    THEN [ok |-> TRUE, val |-> PyList(<<>>), pos |-> SkipWs(s, j + 1)]
    ELSE JsonItems(s, j, <<>>)

JsonItems(s, i, acc) == JsonItemParsed(s, acc, JsonValue(s, i))

JsonItemParsed(s, acc, e) ==
    IF ~e.ok \/ e.pos > Len(s) THEN Fail
    ELSE IF s[e.pos] = "," THEN JsonItems(s, SkipWs(s, e.pos + 1), Append(acc, e.val))
    ELSE IF s[e.pos] = "]"
         THEN [ok |-> TRUE, val |-> PyList(Append(acc, e.val)), pos |-> SkipWs(s, e.pos + 1)]
    ELSE Fail

JsonObject(s, j) ==
    IF j <= Len(s) /\ s[j] = "}"
    THEN [ok |-> TRUE, val |-> PyDict(<<>>), pos |-> SkipWs(s, j + 1)]
    ELSE JsonPairs(s, j, <<>>)

\* a "key" : value pair of an object, starting at i
JsonPairs(s, i, acc) ==
    IF i > Len(s) \/ s[i] # "\"" THEN Fail
    ELSE JsonKeyParsed(s, acc, JsonString(s, i))

JsonKeyParsed(s, acc, k) ==
    IF ~k.ok \/ k.pos > Len(s) \/ s[k.pos] # ":" THEN Fail
    ELSE JsonPairParsed(s, acc, k.val, JsonValue(s, SkipWs(s, k.pos + 1)))

JsonPairParsed(s, acc, key, e) ==
    IF ~e.ok \/ e.pos > Len(s) THEN Fail
    ELSE IF s[e.pos] = ","
         THEN JsonPairs(s, SkipWs(s, e.pos + 1), SetItem(acc, 1, key, e.val))
    ELSE IF s[e.pos] = "}"
         THEN [ok |-> TRUE, val |-> PyDict(SetItem(acc, 1, key, e.val)),
               pos |-> SkipWs(s, e.pos + 1)]
    ELSE Fail

\* the whole text must be one value
JsonWhole(s, e) == IF e.ok /\ e.pos > Len(s) THEN e.val ELSE Raised

\* json.loads(value): the value, or Raised (json.JSONDecodeError)
JsonLoads(s) == JsonWhole(s, JsonValue(s, SkipWs(s, 1)))

\* the decimal digits of n
RECURSIVE DigitsOf(_)
DigitsOf(n) ==
    (IF n >= 10 THEN DigitsOf(n \div 10) ELSE <<>>)
        \o << <<"0", "1", "2", "3", "4", "5", "6", "7", "8", "9">>[(n % 10) + 1] >>

\* json.dumps(value), with its default ", " and ": " separators
RECURSIVE JsonDumps(_)
RECURSIVE JsonDumpsItems(_, _)
RECURSIVE JsonDumpsPairs(_, _)

JsonDumps(v) ==
    IF v.tag = "int" THEN DigitsOf(v.n)
    ELSE IF v.tag = "str" THEN <<"\"">> \o v.s \o <<"\"">>
    ELSE IF v.tag = "list" THEN <<"[">> \o JsonDumpsItems(v.items, 1) \o <<"]">>
    ELSE IF v.tag = "dict" THEN <<"{">> \o JsonDumpsPairs(v.items, 1) \o <<"}">>
    ELSE <<"n", "u", "l", "l">>

JsonDumpsItems(xs, i) ==
    IF i > Len(xs) THEN <<>>
    ELSE (IF i > 1 THEN <<",", " ">> ELSE <<>>)
             \o JsonDumps(xs[i]) \o JsonDumpsItems(xs, i + 1)

JsonDumpsPairs(ps, i) ==
    IF i > Len(ps) THEN <<>>
    ELSE (IF i > 1 THEN <<",", " ">> ELSE <<>>)
             \o JsonDumps(ps[i].items[1]) \o <<":", " ">> \o JsonDumps(ps[i].items[2])
             \o JsonDumpsPairs(ps, i + 1)

\* repr of a string of the characters a and 1, and str of a list of them
Repr(v) == <<"'">> \o v.s \o <<"'">>

RECURSIVE JoinRepr(_, _)
JoinRepr(xs, i) ==
    IF i > Len(xs) THEN <<>>
    ELSE (IF i > 1 THEN <<",", " ">> ELSE <<>>) \o Repr(xs[i]) \o JoinRepr(xs, i + 1)

\* str(value)
StrOf(v) ==
    IF v.tag = "str" THEN v
    ELSE IF v.tag = "list" THEN PyStr(<<"[">> \o JoinRepr(v.items, 1) \o <<"]">>)
    ELSE v

(***************************************************************************)
(* pandas and numpy                                                        *)
(***************************************************************************)
\* pd.isna(value) where value is not a list
IsNaScalar(v) == v.tag \in {"none", "nan"}

\* `if pd.isna(value)`: "true", "false", or "raise" when pd.isna returns an
\* array whose truth value is ambiguous (pd.isna of a list is elementwise)
IsNaTruth(v, strict) ==
    IF v.tag # "list" THEN (IF IsNaScalar(v) THEN "true" ELSE "false")
    ELSE IF Len(v.items) = 0 THEN (IF strict THEN "raise" ELSE "false")
    ELSE IF Len(v.items) = 1
         THEN (IF IsNaScalar(v.items[1]) THEN "true" ELSE "false")
    ELSE "raise"

\* bool(value), what Series.astype(bool) does to each cell of an object column
Truthy(v) ==
    IF v.tag = "none" THEN FALSE
    ELSE IF v.tag = "nan" THEN TRUE
    ELSE IF v.tag = "str" THEN Len(v.s) > 0
    ELSE IF v.tag \in {"int", "bool"} THEN v.n # 0
    ELSE Len(v.items) > 0

(***************************************************************************)
(* DataLoader.clean_dataframe and its helpers, cell by cell                *)
(***************************************************************************)
list_columns ==
    { <<"customers", "preferred_eras">>, <<"customers", "preferred_styles">>,
      <<"customers", "preferred_sizes">>, <<"inventory_items", "photo_urls">>,
      <<"inventory_items", "tags">>, <<"social_media_posts", "hashtags">>,
      <<"social_media_posts", "mentions">> }

json_columns == { <<"inventory_items", "measurements">> }

bool_columns ==
    { <<"locations", "is_active">>, <<"inventory_items", "is_one_of_a_kind">>,
      <<"social_media_accounts", "is_active">>,
      <<"social_media_posts", "is_promotional">>,
      <<"post_items_featured", "is_primary_item">> }

\* columns of no declared composite or boolean type
scalar_columns == { <<"customers", "email">>, <<"orders", "total_amount">> }

Columns == list_columns \cup json_columns \cup bool_columns \cup scalar_columns

\* the except block of _parse_list_string
Fallback(value) == IF value.tag # "none" THEN PyList(<<StrOf(value)>>) ELSE None

\* the try block of _parse_list_string, given the outcome na of `if pd.isna(value)`
ParseListTry(value, na) ==
    IF na = "raise" THEN Raised
    ELSE IF na = "true" \/ value.tag = "none" THEN None
    ELSE IF value.tag = "list" THEN value
    ELSE IF value.tag = "str"
         THEN IF Len(value.s) > 0 /\ value.s[1] = "[" /\ value.s[Len(value.s)] = "]"
              THEN LiteralEval(value.s)
              ELSE PyList(<<value>>)
    ELSE value

Caught(result, value) == IF result = Raised THEN Fallback(value) ELSE result

\* _parse_list_string
ParseListString(value, strict) ==
    Caught(ParseListTry(value, IsNaTruth(value, strict)), value)

\* None where json.loads raised json.JSONDecodeError
OrNone(result) == IF result = Raised THEN None ELSE result

\* _parse_json_string, given the outcome na of `if pd.isna(value)`
ParseJsonTry(value, na) ==
    IF na = "raise" THEN Raised
    ELSE IF na = "true" \/ value.tag = "none" THEN None
    ELSE IF value.tag = "dict" THEN value
    ELSE IF value.tag = "str" THEN OrNone(JsonLoads(value.s))
    ELSE value

\* _parse_json_string
ParseJsonString(value, strict) == ParseJsonTry(value, IsNaTruth(value, strict))

\* _convert_numpy_types, given the outcome na of `if pd.isna(value)`
ConvertTry(value, na) ==
    IF na = "raise" THEN Raised
    ELSE IF na = "true" THEN None
    ELSE IF value.tag = "list" THEN value
    ELSE IF value.np THEN [value EXCEPT !.np = FALSE]
    ELSE value

\* _convert_numpy_types
ConvertNumpyTypes(value, strict) == ConvertTry(value, IsNaTruth(value, strict))

\* clean_dataframe Step 1: NaN becomes None
Step1(v) == IF v.tag = "nan" THEN None ELSE v

\* Step 2: array columns
Step2(col, v, strict) == IF col \in list_columns THEN ParseListString(v, strict) ELSE v

\* Step 3: the JSON column
Step3(col, v, strict) ==
    IF col \in json_columns /\ v # Raised THEN ParseJsonString(v, strict) ELSE v

\* Step 4: boolean columns
Step4(col, v) ==
    IF col \in bool_columns /\ v # Raised THEN PyBool(Truthy(v), TRUE) ELSE v

\* Step 5: numpy types, array columns skipped
Step5(col, v, strict) ==
    IF col \in list_columns \/ v = Raised THEN v ELSE ConvertNumpyTypes(v, strict)

\* clean_dataframe, for the cell v of column col
CleanCell(col, v, strict) ==
    Step5(col, Step4(col, Step3(col, Step2(col, Step1(v), strict), strict)), strict)

\* a plausible slip: the dict is handed to the driver as it is
SafeConvertValueNative(val) == IF IsNaScalar(val) THEN None ELSE val

\* _safe_convert_value
SafeConvertValue(val) ==
    IF val.tag = "none" THEN None
    ELSE IF val.tag = "list" THEN val
    ELSE IF val.tag = "dict" THEN PyStr(JsonDumps(val))
    ELSE IF IsNaScalar(val) THEN None
    ELSE val

(***************************************************************************)
(* The cells the cleaning is applied to.                                   *)
(***************************************************************************)
\* characters between the brackets of a string cell
MaxMid == 3

\* elements of a native list
MaxListLen == 2

Chars == {"[", "]", "'", ",", "a", "1", " "}

Elems == { PyStr(<<"a">>), PyStr(<<"1">>) }

NativeLists == { PyList(xs) : xs \in SeqsUpTo(Elems, MaxListLen) }

Bracketed == { PyStr(<<"[">> \o m \o <<"]">>) : m \in SeqsUpTo(Chars, MaxMid) }

Bare == { PyStr(m) : m \in SeqsUpTo({"a", "1"}, 2) \ {<<>>} }

\* characters of a string cell of the JSON column
MaxJsonLen == 4

JsonChars == {"{", "}", "\"", ":", ",", "[", "]", "1", " "}

\* the values of a serialized object
JsonLeaves ==
    { PyInt(1, FALSE), PyStr(<<"1">>), PyList(<<PyInt(1, FALSE), PyInt(1, FALSE)>>),
      PyDict(<<>>) }

\* objects of one or two keys
JsonObjects ==
    { PyDict(<<PyTuple(<<PyStr(<<"1">>), x>>)>>) : x \in JsonLeaves }
    \cup { PyDict(<<PyTuple(<<PyStr(<<"1">>), x>>), PyTuple(<<PyStr(<<>>), y>>)>>) :
               x \in JsonLeaves, y \in JsonLeaves }

\* string cells of the JSON column: short texts, and serialized objects
JsonCells ==
    { PyStr(m) : m \in SeqsUpTo(JsonChars, MaxJsonLen) \ {<<>>} }
    \cup { PyStr(JsonDumps(o)) : o \in JsonObjects }

Cells ==
    {None, NaN}
    \cup { PyInt(k, TRUE) : k \in {0, 1} }
    \cup { PyBool(b, np) : b \in BOOLEAN, np \in BOOLEAN }
    \cup NativeLists
    \cup { StrOf(l) : l \in NativeLists }
    \cup Bracketed
    \cup Bare

\* string cells of a boolean column that pandas left unparsed
BoolStrings ==
    { PyStr(<<"T", "r", "u", "e">>), PyStr(<<"F", "a", "l", "s", "e">>),
      PyStr(<<"1">>), PyStr(<<"0">>) }

\* the cells a column can hold
CellsOf(col) ==
    Cells \cup (IF col \in json_columns THEN JsonCells \cup JsonObjects ELSE {})
          \cup (IF col \in bool_columns THEN BoolStrings ELSE {})

NoCleaning ==
    /\ cell = None
    /\ column = <<"none", "none">>
    /\ cleaned = NotCleaned
    /\ empty_raises = FALSE
    /\ submitted = NotCleaned

(***************************************************************************)
(* The warehouse schema.  create_tables issues CREATE TABLE IF NOT EXISTS,  *)
(* which leaves a table that already exists as it is.  The tables of the   *)
(* warehouse therefore have either exactly the columns and constraints     *)
(* create_tables lists ("created"), or, where they existed before, those   *)
(* and the columns and unique constraints the statements of the sync       *)
(* adapters name ("migrated").                                             *)
(***************************************************************************)
CreatedColumns ==
    [ locations |->
          { "location_id", "location_name", "location_type", "address",
            "city", "state_province", "country", "postal_code", "market_fee",
            "setup_date", "end_date", "is_active", "notes" },
      customers |->
          { "customer_id", "square_customer_id", "first_name", "last_name",
            "email", "phone", "date_of_birth", "customer_type",
            "preferred_eras", "preferred_styles", "preferred_sizes",
            "total_orders", "total_spent", "average_order_value",
            "first_purchase_date", "last_purchase_date",
            "acquisition_source" },
      inventory_items |->
          { "item_id", "square_catalog_id", "sku", "item_name", "brand",
            "category", "subcategory", "era_decade", "size", "measurements",
            "condition_rating", "condition_notes", "material",
            "color_primary", "color_secondary", "pattern", "cost_price",
            "selling_price", "suggested_retail_price", "source",
            "acquisition_date", "acquisition_location", "is_one_of_a_kind",
            "weight_grams", "photo_urls", "tags", "status" },
      inventory_location_tracking |->
          { "tracking_id", "item_id", "location_id", "quantity",
            "date_moved", "moved_by", "reason" },
      orders |->
          { "order_id", "square_order_id", "customer_id", "location_id",
            "order_date", "order_status", "subtotal", "tax_amount",
            "discount_amount", "tip_amount", "total_amount", "payment_method",
            "order_source", "staff_member", "notes" },
      order_items |->
          { "order_item_id", "order_id", "item_id", "quantity",
            "unit_price", "discount_amount", "total_price" },
      payments |->
          { "payment_id", "square_payment_id", "order_id", "payment_date",
            "amount", "payment_method", "payment_status", "processing_fee",
            "square_fee", "net_amount", "device_name", "receipt_url" },
      social_media_accounts |->
          { "account_id", "platform", "account_handle", "account_name",
            "api_access_token", "is_active" },
      social_media_posts |->
          { "post_id", "account_id", "platform_post_id", "post_type",
            "caption", "post_url", "posted_date", "hashtags", "mentions",
            "is_promotional" },
      post_items_featured |->
          { "feature_id", "post_id", "item_id", "is_primary_item" },
      social_media_metrics |->
          { "metric_id", "post_id", "metric_date", "impressions", "reach",
            "likes", "comments", "shares", "saves", "clicks",
            "engagement_rate" },
      market_performance |->
          { "performance_id", "location_id", "market_date", "total_sales",
            "total_transactions", "items_sold", "average_transaction_value",
            "foot_traffic_estimate", "weather", "competitor_count",
            "booth_cost", "travel_expenses", "net_profit",
            "customer_acquisition_count", "notes" },
      social_media_attribution |->
          { "attribution_id", "customer_id", "order_id", "post_id",
            "attribution_type", "attribution_confidence",
            "time_from_post_to_purchase" } ]

\* PRIMARY KEY and UNIQUE constraints, each the set of its columns
CreatedUnique ==
    [ locations |-> { {"location_id"} },
      customers |-> { {"customer_id"}, {"square_customer_id"}, {"email"} },
      inventory_items |-> { {"item_id"}, {"square_catalog_id"}, {"sku"} },
      inventory_location_tracking |-> { {"tracking_id"} },
      orders |-> { {"order_id"}, {"square_order_id"} },
      order_items |-> { {"order_item_id"} },
      payments |-> { {"payment_id"}, {"square_payment_id"} },
      social_media_accounts |-> { {"account_id"}, {"platform", "account_handle"} },
      social_media_posts |-> { {"post_id"}, {"platform_post_id"} },
      post_items_featured |-> { {"feature_id"} },
      social_media_metrics |-> { {"metric_id"}, {"post_id", "metric_date"} },
      market_performance |-> { {"performance_id"}, {"location_id", "market_date"} },
      social_media_attribution |-> { {"attribution_id"} } ]

(***************************************************************************)
(* The statements the sync adapters execute.  A statement is kept by the   *)
(* table it writes, the columns it names (of the table it writes and, in   *)
(* reads, of the tables it reads: <<table, column>>), the columns of its   *)
(* ON CONFLICT target, and whether it is an INSERT.                        *)
(***************************************************************************)
Of(t, cols) == { <<t, c>> : c \in cols }

\* SquareDataSync._sync_single_location
LocationUpsert ==
    [ table |-> "locations", insert |-> TRUE,
      conflict |-> {"square_location_id"},
      refs |-> Of("locations",
                  { "square_location_id", "location_name", "location_type",
                    "address", "city", "state_province", "country",
                    "postal_code", "is_active", "updated_at" }) ]

\* SquareDataSync.sync_customers
CustomerUpsert ==
    [ table |-> "customers", insert |-> TRUE,
      conflict |-> {"square_customer_id"},
      refs |-> Of("customers",
                  { "square_customer_id", "first_name", "last_name", "email",
                    "phone", "created_at", "updated_at" }) ]

\* SquareDataSync.sync_catalog_items
CatalogUpsert ==
    [ table |-> "inventory_items", insert |-> TRUE,
      conflict |-> {"square_catalog_id"},
      refs |-> Of("inventory_items",
                  { "square_catalog_id", "item_name", "sku", "selling_price",
                    "category", "updated_at" }) ]

\* SquareDataSync._sync_single_order: SELECT location_id FROM locations
\* WHERE square_location_id = %s
OrderLocationLookup ==
    [ table |-> "locations", insert |-> FALSE, conflict |-> {},
      refs |-> Of("locations", { "location_id", "square_location_id" }) ]

\* SquareDataSync._sync_single_order: the upsert, RETURNING order_id
OrderUpsert ==
    [ table |-> "orders", insert |-> TRUE,
      conflict |-> {"square_order_id"},
      refs |-> Of("orders",
                  { "square_order_id", "customer_id", "location_id",
                    "order_date", "order_status", "subtotal", "tax_amount",
                    "discount_amount", "tip_amount", "total_amount",
                    "order_source", "updated_at", "order_id" }) ]

\* SquareDataSync._sync_order_item: a plain INSERT, no ON CONFLICT clause
OrderItemInsert ==
    [ table |-> "order_items", insert |-> TRUE, conflict |-> {},
      refs |-> Of("order_items",
                  { "order_id", "item_id", "quantity", "unit_price",
                    "total_price", "discount_amount" })
               \cup Of("inventory_items", { "item_id", "square_catalog_id" }) ]

\* SquareDataSync._sync_payment
PaymentUpsert ==
    [ table |-> "payments", insert |-> TRUE,
      conflict |-> {"square_payment_id"},
      refs |-> Of("payments",
                  { "square_payment_id", "order_id", "payment_date", "amount",
                    "payment_method", "payment_status", "processing_fee",
                    "square_fee", "net_amount", "updated_at" }) ]

\* SquareDataSync.update_customer_aggregates: UPDATE customers ... FROM orders
AggregatesUpdate ==
    [ table |-> "customers", insert |-> FALSE, conflict |-> {},
      refs |-> Of("customers",
                  { "customer_id", "total_orders", "total_spent",
                    "average_order_value", "first_purchase_date",
                    "last_purchase_date", "updated_at" })
               \cup Of("orders",
                       { "customer_id", "total_amount", "order_date",
                         "order_status" }) ]

\* SocialMediaSync.ensure_social_account_exists, RETURNING account_id
AccountUpsert ==
    [ table |-> "social_media_accounts", insert |-> TRUE,
      conflict |-> {"platform", "account_handle"},
      refs |-> Of("social_media_accounts",
                  { "platform", "account_handle", "account_name", "is_active",
                    "updated_at", "account_id" }) ]

\* the statements of the Square and social adapters that write rows
AdapterStatements ==
    { LocationUpsert, CustomerUpsert, CatalogUpsert, OrderLocationLookup,
      OrderUpsert, OrderItemInsert, PaymentUpsert, AggregatesUpdate,
      AccountUpsert }

\* MasterDataSync.generate_cross_platform_analytics: UPDATE market_performance,
\* CREATE OR REPLACE VIEW business_performance_summary,
\* CREATE OR REPLACE VIEW best_performing_strategies
AnalyticsStatements ==
    << [ table |-> "market_performance", insert |-> FALSE, conflict |-> {},
         refs |-> Of("market_performance", { "notes", "market_date" })
                  \cup Of("social_media_posts", { "posted_date", "post_id" })
                  \cup Of("social_media_metrics", { "engagement_rate", "post_id" }) ],
       [ table |-> "market_performance", insert |-> FALSE, conflict |-> {},
         refs |-> Of("market_performance",
                     { "market_date", "location_id", "total_sales",
                       "total_transactions", "average_transaction_value",
                       "net_profit", "customer_acquisition_count", "booth_cost" })
                  \cup Of("locations", { "location_id", "location_name" })
                  \cup Of("social_media_posts", { "posted_date", "post_id" })
                  \cup Of("social_media_metrics",
                          { "engagement_rate", "reach", "post_id" }) ],
       [ table |-> "market_performance", insert |-> FALSE, conflict |-> {},
         refs |-> Of("market_performance",
                     { "market_date", "location_id", "total_sales", "net_profit" })
                  \cup Of("locations", { "location_id", "location_name" })
                  \cup Of("social_media_posts",
                          { "posted_date", "post_id", "hashtags" })
                  \cup Of("social_media_metrics", { "engagement_rate", "post_id" }) ] >>

Schemas == { "created", "migrated" }

CreatedRefs == UNION { Of(t, CreatedColumns[t]) : t \in Tables }

CreatedTargets == UNION { { <<t, u>> : u \in CreatedUnique[t] } : t \in Tables }

\* the columns of the warehouse's tables, as <<table, column>>
RefsOf(schema) ==
    IF schema = "created" THEN CreatedRefs
    ELSE CreatedRefs \cup UNION { st.refs : st \in AdapterStatements }

\* the unique constraints of the warehouse's tables, as <<table, columns>>
TargetsOf(schema) ==
    IF schema = "created" THEN CreatedTargets
    ELSE CreatedTargets
         \cup { <<st.table, st.conflict>> :
                  st \in { x \in AdapterStatements : x.conflict # {} } }

\* PostgreSQL accepts the statement: every column it names exists, and its
\* ON CONFLICT target is the column set of a unique constraint
Defined(st, schema) ==
    /\ st.refs \subseteq RefsOf(schema)
    /\ st.conflict = {} \/ <<st.table, st.conflict>> \in TargetsOf(schema)

(***************************************************************************)
(* The state of the sync jobs (src/main_sync.py, src/sync).                *)
(***************************************************************************)
\* remote records of each kind the Square API holds
MaxRemote == 1

\* line items of a remote order
MaxLineItems == 1

\* jobs the scheduler starts
MaxJobs == 2

\* load_table calls made between the jobs
MaxLoads == 1

RemoteIds == 1..MaxRemote

\* every remote order has line_items line items and, if tendered, one tender
Remotes ==
    { r \in [ locations : SUBSET RemoteIds, customers : SUBSET RemoteIds,
              catalog : SUBSET RemoteIds, orders : SUBSET RemoteIds,
              line_items : 0..MaxLineItems, tendered : BOOLEAN ] :
        r.orders = {} => (r.line_items = 0 /\ ~r.tendered) }

\* SocialMediaConfig: which of the credentials are set
Configs ==
    [ instagram_access_token : BOOLEAN, instagram_business_account_id : BOOLEAN,
      facebook_access_token : BOOLEAN, facebook_page_id : BOOLEAN ]

\* the configurations the scheduler is followed under: FACEBOOK_PAGE_ID, which
\* only health_check reads, set together with the token
SchedulerConfigs == { c \in Configs : c.facebook_page_id = c.facebook_access_token }

Platforms == { "instagram", "facebook" }

EmptyExt == [ t \in Tables |-> {} ]

\* success_results = {}
EmptyDict == [ k \in {} |-> TRUE ]

NoUnit == [unit |-> "none", ok |-> TRUE, error |-> "none", conn |-> "none"]

\* health_status as health_check initialises it
NoHealth ==
    [ database |-> FALSE, square_api |-> FALSE, instagram_api |-> FALSE,
      facebook_api |-> FALSE, overall |-> FALSE ]

\* no job has returned; value: the job's return value, or health['overall']
NoResult == [returned |-> FALSE, raised |-> FALSE, value |-> FALSE, health |-> NoHealth]

\* DatabaseConfig.__post_init__ required_fields, as the variables they read
DatabaseEnvVars == { "DB_HOST", "DB_NAME", "DB_USER", "DB_PASSWORD" }

\* get_required_env_vars
RequiredEnvVars == DatabaseEnvVars \cup { "SQUARE_ACCESS_TOKEN" }

\* the variables the model follows: the required ones and the one social
\* credential that is not part of social_config
EnvVars == RequiredEnvVars \cup { "TIKTOK_ACCESS_TOKEN" }

\* a variable is not in the environment, is there with an empty value, or is
\* there with a value
EnvValues == { "unset", "empty", "set" }

AllSet == [ v \in EnvVars |-> "set" ]

NoProgram ==
    [name |-> "none", command |-> "none", insights |-> FALSE, check_only |-> FALSE]

\* the process has not exited
Running == -1

\* no entry point is running: the model follows a function of the program
NoMain ==
    /\ environ = AllSet
    /\ program = NoProgram
    /\ main_pc = "none"
    /\ exit_code = Running
    /\ connects = 0
    /\ loader_conn = "unset"
    /\ insighted = FALSE
    /\ jobs_failed = 0

NoSync ==
    /\ warehouse_schema = "created"
    /\ finalizes = FALSE
    /\ remote = [ locations |-> {}, customers |-> {}, catalog |-> {}, orders |-> {},
                  line_items |-> 0, tendered |-> FALSE ]
    /\ social_config = [ instagram_access_token |-> FALSE,
                         instagram_business_account_id |-> FALSE,
                         facebook_access_token |-> FALSE,
                         facebook_page_id |-> FALSE ]
    /\ ext = EmptyExt
    /\ job = "none"
    /\ pc = "idle"
    /\ success = TRUE
    /\ success_results = EmptyDict
    /\ tasks = [ p \in Platforms |-> "none" ]
    /\ open_conns = {}
    /\ conn_users = {}
    /\ analytics_executed = 0
    /\ analytics_committed = 0
    /\ unit_result = NoUnit
    /\ jobs_run = 0
    /\ loads = 0
    /\ job_result = NoResult

(***************************************************************************)
(* DataLoader.load_all_data                                                *)
(***************************************************************************)
\* a plausible slip: the loop stops at the first table that fails
NextIndexBreak(i, ok) == IF ok THEN i + 1 ELSE total_count + 1

\* for table_name, csv_file in load_order: the next table, whatever the result
NextIndex(i, ok) == i + 1

\* a plausible slip: any loaded table counts as overall success
AllSucceededAny(sc, total) == sc > 0

\* if success_count == total_count
AllSucceeded(sc, total) == sc = total

Init ==
    /\ db = EmptyDb
    /\ idx = 0
    /\ success_count = 0
    /\ attempts = <<>>
    /\ ret = "none"
    /\ checked = FALSE
    /\ last = NoCall
    /\ rows_read = 0
    /\ call = NotObserved
    /\ NoCleaning
    /\ NoSync
    /\ NoMain

\* one run of load_all_data per process (main)
StartLoadAll ==
    /\ idx = 0
    /\ ret = "none"
    /\ idx' = 1
    /\ success_count' = 0
    /\ attempts' = <<>>
    /\ ret' = "none"
    /\ checked' = FALSE
    /\ last' = NoCall
    /\ UNCHANGED <<db, rows_read, call>>
    /\ UNCHANGED cleanVars
    /\ UNCHANGED syncVars
    /\ UNCHANGED mainVars

LoadStep ==
    /\ idx \in 1..total_count
    /\ \E f \in Files(LoadOrder[idx]) :
          LET t == LoadOrder[idx]
              r == LoadTable(t, f, db)
          IN  /\ rows_read + Len(f.rows) <= MaxRunRows
              /\ rows_read' = rows_read + Len(f.rows)
              /\ db' = r.db
              /\ success_count' = IF r.ok THEN success_count + 1 ELSE success_count
              /\ attempts' = Append(attempts, t)
              /\ idx' = NextIndex(idx, r.ok)
              /\ last' = Observed(t, r)
    /\ UNCHANGED <<ret, checked, call>>
    /\ UNCHANGED cleanVars
    /\ UNCHANGED syncVars
    /\ UNCHANGED mainVars

Summary ==
    /\ idx = total_count + 1
    /\ idx' = 0
    /\ ret' = IF AllSucceeded(success_count, total_count) THEN "true" ELSE "false"
    /\ checked' = AllSucceeded(success_count, total_count)
    /\ UNCHANGED <<db, success_count, attempts, last, rows_read, call>>
    /\ UNCHANGED cleanVars
    /\ UNCHANGED syncVars
    /\ UNCHANGED mainVars

Next == StartLoadAll \/ LoadStep \/ Summary

Spec == Init /\ [][Next]_vars

(***************************************************************************)
(* load_table called directly, twice, with the same table and file, on a   *)
(* warehouse that already holds up to MaxInitRows rows.                    *)
(***************************************************************************)
RECURSIVE Warehouses(_)
Warehouses(n) ==
    IF n = 0 THEN {EmptyDb}
    ELSE LET W == Warehouses(n - 1) IN
         W \cup { [d EXCEPT ![t].keys = @ \cup {k}] : d \in W, t \in Loaded, k \in Keys }
           \cup { [d EXCEPT ![t].gen = @ + 1] : d \in W, t \in Loaded }

InitReload ==
    /\ db \in Warehouses(MaxInitRows)
    /\ call \in UNION { { [table |-> t, file |-> f, nth |-> 0] : f \in Files(t) } :
                         t \in Loaded }
    /\ idx = 0
    /\ success_count = 0
    /\ attempts = <<>>
    /\ ret = "none"
    /\ checked = FALSE
    /\ last = NoCall
    /\ rows_read = 0
    /\ NoCleaning
    /\ NoSync
    /\ NoMain

LoadCall ==
    /\ call.nth < 2
    /\ LET r == LoadTable(call.table, call.file, db)
       IN  /\ db' = r.db
           /\ last' = Observed(call.table, r)
    /\ call' = [call EXCEPT !.nth = @ + 1]
    /\ UNCHANGED <<idx, success_count, attempts, ret, checked, rows_read>>
    /\ UNCHANGED cleanVars
    /\ UNCHANGED syncVars
    /\ UNCHANGED mainVars

NextReload == LoadCall

SpecReload == InitReload /\ [][NextReload]_vars

(***************************************************************************)
(* clean_dataframe applied to one cell of one column.                      *)
(***************************************************************************)
InitClean ==
    /\ column \in Columns
    /\ cell \in CellsOf(column)
    /\ empty_raises \in BOOLEAN
    /\ cleaned = NotCleaned
    /\ submitted = NotCleaned
    /\ db = EmptyDb
    /\ idx = 0
    /\ success_count = 0
    /\ attempts = <<>>
    /\ ret = "none"
    /\ checked = FALSE
    /\ last = NoCall
    /\ rows_read = 0
    /\ call = NotObserved
    /\ NoSync
    /\ NoMain

Clean ==
    /\ cleaned = NotCleaned
    /\ cleaned' = CleanCell(column, cell, empty_raises)
    /\ UNCHANGED <<cell, column, empty_raises, submitted>>
    /\ UNCHANGED loaderVars
    /\ UNCHANGED syncVars
    /\ UNCHANGED mainVars

\* load_table builds the row tuple from the cleaned frame; a cleaning that
\* raised has left the try block
Submit ==
    /\ cleaned \notin {NotCleaned, Raised}
    /\ submitted = NotCleaned
    /\ submitted' = SafeConvertValue(cleaned)
    /\ UNCHANGED <<cell, column, empty_raises, cleaned>>
    /\ UNCHANGED loaderVars
    /\ UNCHANGED syncVars
    /\ UNCHANGED mainVars

NextClean == Clean \/ Submit

SpecClean == InitClean /\ [][NextClean]_vars

(***************************************************************************)
(* The units of work of the sync adapters.  Each runs on the committed     *)
(* warehouse tx = [db, ext] and returns [ok, tx, error, conn]: whether it   *)
(* returned True (for a unit without a return value: did not raise), the   *)
(* warehouse it leaves committed, why it failed, and what became of the    *)
(* connection it opened: "none" (never opened), "closed" (conn.close()     *)
(* called) or "abandoned" (the unit returned without calling close()).     *)
(***************************************************************************)
\* what goes wrong in a unit of work: the Square API raises, psycopg2.connect
\* raises, or a statement raises for a reason other than the schema (a
\* constraint, a lost connection)
Faults == { "none", "api", "connect", "statement" }

DbFaults == Faults \ {"api"}

Store(d, e) == [db |-> d, ext |-> e]

Returned(ok, tx, error, conn) == [ok |-> ok, tx |-> tx, error |-> error, conn |-> conn]

\* INSERT ... [ON CONFLICT (target) DO UPDATE ...] of the remote record id:
\* a stored row with the same external identifier is updated in place,
\* otherwise a row is added under the next value of the SERIAL key
Upsert(st, id, tx) ==
    IF st.conflict # {} /\ id \in tx.ext[st.table] THEN tx
    ELSE [db |-> [tx.db EXCEPT ![st.table].gen = @ + 1],
          ext |-> [tx.ext EXCEPT ![st.table] =
                      @ \cup (IF st.conflict = {} THEN {} ELSE {id})]]

RECURSIVE UpsertAll(_, _, _)
UpsertAll(st, ids, tx) ==
    IF ids = {} THEN tx
    ELSE LET id == CHOOSE x \in ids : TRUE
         IN  UpsertAll(st, ids \ {id}, Upsert(st, id, tx))

RECURSIVE Times(_, _, _, _)
Times(n, st, id, tx) == IF n = 0 THEN tx ELSE Times(n - 1, st, id, Upsert(st, id, tx))

\* a plausible slip: the aggregates rebuilt by emptying the table first
UpdateRowsTruncate(st, tx) ==
    [db |-> [tx.db EXCEPT ![st.table] = [keys |-> {}, gen |-> 0]],
     ext |-> [tx.ext EXCEPT ![st.table] = {}]]

\* UPDATE ... SET: no row is added or removed
UpdateRows(st, tx) == tx

\* SquareDataSync.sync_locations
SyncLocations(f, schema, rem, tx) ==
    IF f = "api" THEN Returned(FALSE, tx, "api", "none")
    ELSE IF f = "connect" THEN Returned(FALSE, tx, "connect", "none")
    ELSE IF rem.locations = {} THEN Returned(TRUE, tx, "none", "abandoned")
    ELSE IF ~Defined(LocationUpsert, schema)
         THEN Returned(FALSE, tx, "undefined", "abandoned")
    ELSE IF f = "statement" THEN Returned(FALSE, tx, "statement", "abandoned")
    ELSE Returned(TRUE, Commit(tx, UpsertAll(LocationUpsert, rem.locations, tx)),
                  "none", "closed")

\* SquareDataSync.sync_customers: the connection is opened before the API call
SyncCustomers(f, schema, rem, tx) ==
    IF f = "connect" THEN Returned(FALSE, tx, "connect", "none")
    ELSE IF f = "api" THEN Returned(FALSE, tx, "api", "abandoned")
    ELSE IF rem.customers = {} THEN Returned(TRUE, Commit(tx, tx), "none", "closed")
    ELSE IF ~Defined(CustomerUpsert, schema)
         THEN Returned(FALSE, tx, "undefined", "abandoned")
    ELSE IF f = "statement" THEN Returned(FALSE, tx, "statement", "abandoned")
    ELSE Returned(TRUE, Commit(tx, UpsertAll(CustomerUpsert, rem.customers, tx)),
                  "none", "closed")

\* SquareDataSync.sync_catalog_items
SyncCatalogItems(f, schema, rem, tx) ==
    IF f = "api" THEN Returned(FALSE, tx, "api", "none")
    ELSE IF f = "connect" THEN Returned(FALSE, tx, "connect", "none")
    ELSE IF rem.catalog = {} THEN Returned(TRUE, Commit(tx, tx), "none", "closed")
    ELSE IF ~Defined(CatalogUpsert, schema)
         THEN Returned(FALSE, tx, "undefined", "abandoned")
    ELSE IF f = "statement" THEN Returned(FALSE, tx, "statement", "abandoned")
    ELSE Returned(TRUE, Commit(tx, UpsertAll(CatalogUpsert, rem.catalog, tx)),
                  "none", "closed")

\* the statements sync_orders executes for one remote order
OrderStatements(rem) ==
    { OrderLocationLookup, OrderUpsert }
    \cup (IF rem.line_items > 0 THEN {OrderItemInsert} ELSE {})
    \cup (IF rem.tendered THEN {PaymentUpsert} ELSE {})

\* _sync_single_order, then _sync_order_item for every line item, then
\* _sync_payment for every tender (a tender is identified with its order)
SyncSingleOrder(id, rem, tx) ==
    LET ordered == Upsert(OrderUpsert, id, tx)
        itemized == Times(rem.line_items, OrderItemInsert, id, ordered)
    IN  IF rem.tendered THEN Upsert(PaymentUpsert, id, itemized) ELSE itemized

RECURSIVE SyncOrdersLoop(_, _, _)
SyncOrdersLoop(ids, rem, tx) ==
    IF ids = {} THEN tx
    ELSE LET id == CHOOSE x \in ids : TRUE
         IN  SyncOrdersLoop(ids \ {id}, rem, SyncSingleOrder(id, rem, tx))

\* SquareDataSync.sync_orders
SyncOrders(f, schema, rem, tx) ==
    IF f = "api" THEN Returned(FALSE, tx, "api", "none")
    ELSE IF f = "connect" THEN Returned(FALSE, tx, "connect", "none")
    ELSE IF rem.orders = {} THEN Returned(TRUE, tx, "none", "abandoned")
    ELSE IF \E st \in OrderStatements(rem) : ~Defined(st, schema)
         THEN Returned(FALSE, tx, "undefined", "abandoned")
    ELSE IF f = "statement" THEN Returned(FALSE, tx, "statement", "abandoned")
    ELSE Returned(TRUE, Commit(tx, SyncOrdersLoop(rem.orders, rem, tx)),
                  "none", "closed")

\* SquareDataSync.update_customer_aggregates: no try block; ok = did not raise
UpdateCustomerAggregates(f, schema, tx) ==
    IF f = "connect" THEN Returned(FALSE, tx, "connect", "none")
    ELSE IF ~Defined(AggregatesUpdate, schema)
         THEN Returned(FALSE, tx, "undefined", "abandoned")
    ELSE IF f = "statement" THEN Returned(FALSE, tx, "statement", "abandoned")
    ELSE Returned(TRUE, Commit(tx, UpdateRows(AggregatesUpdate, tx)), "none", "closed")

\* SocialMediaSync.ensure_social_account_exists; ok = did not raise.  The
\* connection's cursor_factory is RealDictCursor, so fetchone() gives a row
\* keyed by column name and result[0] raises KeyError: the function rolls
\* back, closes and raises on every path on which it connected.
EnsureSocialAccountExists(platform, f, schema, tx) ==
    IF f = "connect" THEN Returned(FALSE, tx, "connect", "none")
    ELSE IF ~Defined(AccountUpsert, schema)
         THEN Returned(FALSE, Rollback(tx, tx), "undefined", "closed")
    ELSE IF f = "statement" THEN Returned(FALSE, Rollback(tx, tx), "statement", "closed")
    ELSE Returned(FALSE, Rollback(tx, Upsert(AccountUpsert, platform, tx)),
                  "key_error", "closed")

\* except Exception: return False.  ensure_social_account_exists never
\* returns, so the request and the post loop that follow it are not reached.
AccountEnsured(e) == Returned(FALSE, e.tx, e.error, e.conn)

\* SocialMediaSync.sync_instagram_business_data
SyncInstagramBusinessData(f, config, schema, tx) ==
    IF ~config.instagram_access_token \/ ~config.instagram_business_account_id
    THEN Returned(FALSE, tx, "not_configured", "none")
    ELSE AccountEnsured(EnsureSocialAccountExists("instagram", f, schema, tx))

\* SocialMediaSync.sync_facebook_data
SyncFacebookData(f, config, schema, tx) ==
    IF ~config.facebook_access_token
    THEN Returned(FALSE, tx, "not_configured", "none")
    ELSE AccountEnsured(EnsureSocialAccountExists("facebook", f, schema, tx))

SyncPlatform(p, f, config, schema, tx) ==
    IF p = "instagram" THEN SyncInstagramBusinessData(f, config, schema, tx)
    ELSE SyncFacebookData(f, config, schema, tx)

\* a plausible slip: one connection kept by the adapter for all its callers
GetDbConnectionShared(caller, users) ==
    IF users = {} THEN caller ELSE (CHOOSE u \in users : TRUE)[1]

\* SocialMediaSync.get_db_connection: psycopg2.connect on every call, so the
\* connection is the caller's own; the result is the task that opened it
GetDbConnection(caller, users) == caller

\* the index of the first analytics statement the schema rejects, or 0
FirstUndefined(schema) ==
    LET bad == { i \in 1..Len(AnalyticsStatements) :
                   ~Defined(AnalyticsStatements[i], schema) }
    IN  IF bad = {} THEN 0 ELSE CHOOSE i \in bad : \A j \in bad : i <= j

\* committed: the statements of this call whose effect is committed
Analyzed(r, n, c) ==
    [ok |-> r.ok, tx |-> r.tx, error |-> r.error, conn |-> r.conn, executed |-> n,
     committed |-> c]

\* MasterDataSync.generate_cross_platform_analytics; ok = did not raise;
\* executed: the statements passed to cursor.execute; with f = "statement"
\* the k-th of them raises, and the statements before it have taken effect
\* in the transaction that conn.rollback() then undoes
GenerateCrossPlatformAnalytics(f, k, schema, tx) ==
    IF f = "connect" THEN Analyzed(Returned(FALSE, tx, "connect", "none"), 0, 0)
    ELSE IF FirstUndefined(schema) # 0
         THEN Analyzed(Returned(FALSE, Rollback(tx, tx), "undefined", "closed"),
                       FirstUndefined(schema),
                       Rollback(0, FirstUndefined(schema) - 1))
    ELSE IF f = "statement"
         THEN Analyzed(Returned(FALSE, Rollback(tx, tx), "statement", "closed"), k,
                       Rollback(0, k - 1))
    ELSE Analyzed(Returned(TRUE, Commit(tx, UpdateRows(AnalyticsStatements[1], tx)),
                           "none", "closed"),
                  Len(AnalyticsStatements),
                  Commit(0, Len(AnalyticsStatements)))

\* MasterDataSync.health_check, the database part; ok = health_status['database']
HealthCheckDatabase(f, tx) ==
    IF f = "connect" THEN Returned(FALSE, tx, "connect", "none")
    ELSE IF f = "statement" THEN Returned(FALSE, tx, "statement", "abandoned")
    ELSE Returned(TRUE, tx, "none", "closed")

\* a plausible slip: the analytics run when any adapter succeeded
AnyValues(results) == \E k \in DOMAIN results : results[k]

\* all(success_results.values())
AllValues(results) == \A k \in DOMAIN results : results[k]

(***************************************************************************)
(* The jobs of the scheduler (setup_scheduler): full_synchronization,      *)
(* quick_sync and health_check, one at a time, and load_table calls of the *)
(* loader between them, on one warehouse.                                  *)
(***************************************************************************)
envVars == <<warehouse_schema, finalizes, remote, social_config>>

loaderRest == <<idx, success_count, attempts, ret, checked, last, rows_read, call>>

\* MasterDataSync(config) over an empty warehouse, whatever the configuration
SyncStart(configs) ==
    /\ warehouse_schema \in Schemas
    /\ finalizes \in BOOLEAN
    /\ remote \in Remotes
    /\ social_config \in configs
    /\ db = EmptyDb
    /\ ext = EmptyExt
    /\ job = "none"
    /\ pc = "idle"
    /\ success = TRUE
    /\ success_results = EmptyDict
    /\ tasks = [ p \in Platforms |-> "none" ]
    /\ open_conns = {}
    /\ conn_users = {}
    /\ analytics_executed = 0
    /\ analytics_committed = 0
    /\ unit_result = NoUnit
    /\ jobs_run = 0
    /\ loads = 0
    /\ idx = 0
    /\ success_count = 0
    /\ attempts = <<>>
    /\ ret = "none"
    /\ checked = FALSE
    /\ last = NoCall
    /\ rows_read = 0
    /\ call = NotObserved
    /\ NoCleaning
    /\ job_result = NoResult

InitSync == SyncStart(SchedulerConfigs) /\ NoMain

\* the unit of work has returned r.  A connection it did not close is closed
\* when the runtime finalizes the connection object: at once where objects
\* are reference counted, not before a later collection otherwise.
Ran(unit, r) ==
    /\ db' = r.tx.db
    /\ ext' = r.tx.ext
    /\ unit_result' = [unit |-> unit, ok |-> r.ok, error |-> r.error, conn |-> r.conn]
    /\ open_conns' = IF r.conn = "abandoned" /\ ~finalizes
                     THEN open_conns \cup {unit}
                     ELSE open_conns

NotRun == UNCHANGED <<db, ext, unit_result, open_conns>>

\* a plausible slip: every due job is started in a thread of its own
JobMayStartThreaded(running) == TRUE

\* schedule.run_pending() calls a due job in the thread of the loop, and the
\* commands call one operation: a job starts when no job is running
JobMayStart(running) == running = "none"

StartJob(j, first) ==
    /\ JobMayStart(job)
    /\ jobs_run < MaxJobs
    /\ job' = j
    /\ pc' = first
    /\ success' = TRUE
    /\ success_results' = EmptyDict
    /\ analytics_executed' = 0
    /\ analytics_committed' = 0
    /\ jobs_run' = jobs_run + 1
    /\ UNCHANGED <<db, ext, tasks, open_conns, conn_users, unit_result, loads>>
    /\ UNCHANGED envVars
    /\ UNCHANGED loaderRest
    /\ UNCHANGED cleanVars
    /\ UNCHANGED mainVars
    /\ UNCHANGED job_result

\* asyncio.run(self.full_synchronization()), then square_sync.full_sync()
StartFull == StartJob("full", "sync_locations")

\* self.quick_sync()
StartQuick == StartJob("quick", "sync_orders")

\* self.health_check()
StartHealth == StartJob("health", "health_check")

\* success &= self.sync_...()
SquareStep(unit, r, next) ==
    /\ Ran(unit, r)
    /\ success' = (success /\ r.ok)
    /\ pc' = next
    /\ UNCHANGED <<job, success_results, tasks, conn_users, analytics_executed,
                   analytics_committed,
                   jobs_run, loads>>
    /\ UNCHANGED envVars
    /\ UNCHANGED loaderRest
    /\ UNCHANGED cleanVars
    /\ UNCHANGED mainVars
    /\ UNCHANGED job_result

SyncLocationsStep ==
    /\ job = "full"
    /\ pc = "sync_locations"
    /\ \E f \in Faults :
         SquareStep("sync_locations",
                    SyncLocations(f, warehouse_schema, remote, Store(db, ext)),
                    "sync_customers")

SyncCustomersStep ==
    /\ job = "full"
    /\ pc = "sync_customers"
    /\ \E f \in Faults :
         SquareStep("sync_customers",
                    SyncCustomers(f, warehouse_schema, remote, Store(db, ext)),
                    "sync_catalog_items")

SyncCatalogItemsStep ==
    /\ job = "full"
    /\ pc = "sync_catalog_items"
    /\ \E f \in Faults :
         SquareStep("sync_catalog_items",
                    SyncCatalogItems(f, warehouse_schema, remote, Store(db, ext)),
                    "sync_orders")

\* the last sync of full_sync, the first step of quick_sync
SyncOrdersStep ==
    /\ job \in {"full", "quick"}
    /\ pc = "sync_orders"
    /\ \E f \in Faults :
         SquareStep("sync_orders",
                    SyncOrders(f, warehouse_schema, remote, Store(db, ext)),
                    IF job = "full" THEN "update_customer_aggregates"
                    ELSE "social_full_sync")

\* if success: self.update_customer_aggregates(); an exception sets success to
\* False
AggregatesIf(cond, r) ==
    IF cond
    THEN /\ Ran("update_customer_aggregates", r)
         /\ success' = r.ok
    ELSE /\ NotRun
         /\ success' = FALSE

\* the end of SquareDataSync.full_sync, and success_results['square'] = ...
SquareFullSyncEnd ==
    /\ job = "full"
    /\ pc = "update_customer_aggregates"
    /\ \E f \in DbFaults :
         AggregatesIf(success,
                      UpdateCustomerAggregates(f, warehouse_schema, Store(db, ext)))
    /\ success_results' = ("square" :> success') @@ success_results
    /\ pc' = "social_full_sync"
    /\ UNCHANGED <<job, tasks, conn_users, analytics_executed, analytics_committed,
                   jobs_run, loads>>
    /\ UNCHANGED envVars
    /\ UNCHANGED loaderRest
    /\ UNCHANGED cleanVars
    /\ UNCHANGED mainVars
    /\ UNCHANGED job_result

\* if self.social_config.<platform>_access_token: tasks.append(...)
Task(p, config) ==
    IF p = "instagram" THEN config.instagram_access_token
    ELSE config.facebook_access_token

\* SocialMediaSync.full_sync returns result to the job
SocialReturns(result) ==
    /\ success_results' = ("social_media" :> result) @@ success_results
    /\ tasks' = [ p \in Platforms |-> "none" ]
    /\ pc' = IF job = "full" THEN "analytics" ELSE "quick_aggregates"

\* SocialMediaSync.full_sync up to asyncio.gather; without tasks it returns
SocialFullSync ==
    /\ pc = "social_full_sync"
    /\ IF \E p \in Platforms : Task(p, social_config)
       THEN /\ tasks' = [ p \in Platforms |->
                            IF Task(p, social_config) THEN "pending" ELSE "none" ]
            /\ pc' = "gather"
            /\ UNCHANGED success_results
       ELSE SocialReturns(TRUE)
    /\ UNCHANGED <<db, ext, job, success, open_conns, conn_users, analytics_executed,
                   analytics_committed,
                   unit_result, jobs_run, loads>>
    /\ UNCHANGED envVars
    /\ UNCHANGED loaderRest
    /\ UNCHANGED cleanVars
    /\ UNCHANGED mainVars
    /\ UNCHANGED job_result

TaskRan(p, r) ==
    /\ Ran(IF r.conn = "none" THEN p ELSE "ensure_social_account_exists", r)
    /\ tasks' = [tasks EXCEPT ![p] = IF r.ok THEN "true" ELSE "false"]
    /\ conn_users' = IF r.conn = "none" THEN conn_users
                     ELSE conn_users \cup { <<GetDbConnection(p, conn_users), p>> }

\* one task of asyncio.gather runs; it never suspends, so it runs to its end
RunTask ==
    /\ pc = "gather"
    /\ \E p \in Platforms :
         /\ tasks[p] = "pending"
         /\ \E f \in DbFaults :
              TaskRan(p, SyncPlatform(p, f, social_config, warehouse_schema,
                                      Store(db, ext)))
    /\ UNCHANGED <<job, pc, success, success_results, analytics_executed,
                   analytics_committed, jobs_run,
                   loads>>
    /\ UNCHANGED envVars
    /\ UNCHANGED loaderRest
    /\ UNCHANGED cleanVars
    /\ UNCHANGED mainVars
    /\ UNCHANGED job_result

\* a plausible slip: success = bool(result) in the loop, so that one result
\* that is not falsy is enough
GatherSuccessAny(ts) == \E p \in Platforms : ts[p] \in {"none", "true"}

\* for i, result in enumerate(results): success is False if a result is an
\* exception or falsy; "none" is a task that was not appended
GatherSuccess(ts) == \A p \in Platforms : ts[p] \in {"none", "true"}

\* results = await asyncio.gather(...), once every task has finished
Gathered ==
    /\ pc = "gather"
    /\ \A p \in Platforms : tasks[p] # "pending"
    /\ SocialReturns(GatherSuccess(tasks))
    /\ UNCHANGED <<db, ext, job, success, open_conns, conn_users, analytics_executed,
                   analytics_committed,
                   unit_result, jobs_run, loads>>
    /\ UNCHANGED envVars
    /\ UNCHANGED loaderRest
    /\ UNCHANGED cleanVars
    /\ UNCHANGED mainVars
    /\ UNCHANGED job_result

\* the job has returned b
JobReturns(b) == [returned |-> TRUE, raised |-> FALSE, value |-> b, health |-> NoHealth]

\* a plausible slip: the analytics' exception is logged and the adapters'
\* results are returned
TotalSuccessOfAdapters(results, analytics_ok) == AllValues(results)

\* full_synchronization's return value: total_success, or False from the except
\* clause when the analytics raised
TotalSuccess(results, analytics_ok) == AllValues(results) /\ analytics_ok

AnalyticsIf(cond, r) ==
    IF cond
    THEN /\ Ran("generate_cross_platform_analytics", r)
         /\ analytics_executed' = r.executed
         /\ analytics_committed' = r.committed
         /\ job_result' = JobReturns(TotalSuccess(success_results, r.ok))
    ELSE /\ NotRun
         /\ UNCHANGED <<analytics_executed, analytics_committed>>
         /\ job_result' = JobReturns(TotalSuccess(success_results, TRUE))

\* phase 3 of full_synchronization and its return
Analytics ==
    /\ job = "full"
    /\ pc = "analytics"
    /\ \E f \in DbFaults, k \in 1..Len(AnalyticsStatements) :
         AnalyticsIf(AllValues(success_results),
                     GenerateCrossPlatformAnalytics(f, k, warehouse_schema,
                                                    Store(db, ext)))
    /\ pc' = "return"
    /\ UNCHANGED <<job, success, success_results, tasks, conn_users, jobs_run, loads>>
    /\ UNCHANGED envVars
    /\ UNCHANGED loaderRest
    /\ UNCHANGED cleanVars
    /\ UNCHANGED mainVars

\* the end of quick_sync: if success_square and success_social: ...
QuickSyncEnd ==
    /\ job = "quick"
    /\ pc = "quick_aggregates"
    /\ \E f \in DbFaults :
         AggregatesIf(success /\ success_results["social_media"],
                      UpdateCustomerAggregates(f, warehouse_schema, Store(db, ext)))
    /\ job_result' = JobReturns(success')
    /\ pc' = "return"
    /\ UNCHANGED <<job, success_results, tasks, conn_users, analytics_executed,
                   analytics_committed,
                   jobs_run, loads>>
    /\ UNCHANGED envVars
    /\ UNCHANGED loaderRest
    /\ UNCHANGED cleanVars
    /\ UNCHANGED mainVars

\* SocialMediaConfig.has_instagram_config, has_facebook_config
HasConfig(p, config) ==
    IF p = "instagram"
    THEN config.instagram_access_token /\ config.instagram_business_account_id
    ELSE config.facebook_access_token /\ config.facebook_page_id

\* what the status request of a platform can answer: it is sent only if the
\* platform is configured; TRUE is status_code == 200
ApiAnswers(p, config) == IF HasConfig(p, config) THEN BOOLEAN ELSE {FALSE}

\* a plausible slip: every component has to be healthy
OverallAll(database, square_api, instagram_api, facebook_api) ==
    database /\ square_api /\ instagram_api /\ facebook_api

\* health_status['overall'] = health_status['database'] and health_status['square_api']
Overall(database, square_api, instagram_api, facebook_api) == database /\ square_api

\* the health_status health_check returns
HealthStatus(database, square_api, instagram_api, facebook_api) ==
    [ returned |-> TRUE, raised |-> FALSE,
      value |-> Overall(database, square_api, instagram_api, facebook_api),
      health |-> [ database |-> database, square_api |-> square_api,
                   instagram_api |-> instagram_api, facebook_api |-> facebook_api,
                   overall |-> Overall(database, square_api, instagram_api,
                                       facebook_api) ] ]

\* health_check: the database test, the Square request (sq: it answered
\* without errors) and the status request of each configured platform
HealthCheck ==
    /\ job = "health"
    /\ pc = "health_check"
    /\ \E f \in DbFaults, sq \in BOOLEAN :
         \E ig \in ApiAnswers("instagram", social_config),
            fb \in ApiAnswers("facebook", social_config) :
           /\ Ran("health_check", HealthCheckDatabase(f, Store(db, ext)))
           /\ job_result' = HealthStatus(unit_result'.ok, sq, ig, fb)
    /\ pc' = "return"
    /\ UNCHANGED <<job, success, success_results, tasks, conn_users,
                   analytics_executed, analytics_committed, jobs_run, loads>>
    /\ UNCHANGED envVars
    /\ UNCHANGED loaderRest
    /\ UNCHANGED cleanVars
    /\ UNCHANGED mainVars

\* the job returns to the scheduler; its local variables are gone, and what
\* was observed of its units is forgotten
Return ==
    /\ pc = "return"
    /\ job' = "none"
    /\ pc' = "idle"
    /\ success' = TRUE
    /\ success_results' = EmptyDict
    /\ analytics_executed' = 0
    /\ analytics_committed' = 0
    /\ unit_result' = NoUnit
    /\ open_conns' = {}
    /\ conn_users' = {}
    /\ job_result' = NoResult
    /\ UNCHANGED <<db, ext, tasks, jobs_run, loads>>
    /\ UNCHANGED envVars
    /\ UNCHANGED loaderRest
    /\ UNCHANGED cleanVars
    /\ UNCHANGED mainVars

\* DataLoader.load_table, called while no job runs
LoadJob ==
    /\ job = "none"
    /\ loads < MaxLoads
    /\ \E t \in Loaded : \E f \in Files(t) : db' = LoadTable(t, f, db).db
    /\ loads' = loads + 1
    /\ UNCHANGED <<ext, job, pc, success, success_results, tasks, open_conns,
                   conn_users, analytics_executed, analytics_committed, unit_result,
                   jobs_run>>
    /\ UNCHANGED envVars
    /\ UNCHANGED loaderRest
    /\ UNCHANGED cleanVars
    /\ UNCHANGED mainVars
    /\ UNCHANGED job_result

NextSync ==
    \/ StartFull
    \/ StartQuick
    \/ StartHealth
    \/ SyncLocationsStep
    \/ SyncCustomersStep
    \/ SyncCatalogItemsStep
    \/ SyncOrdersStep
    \/ SquareFullSyncEnd
    \/ SocialFullSync
    \/ RunTask
    \/ Gathered
    \/ Analytics
    \/ QuickSyncEnd
    \/ HealthCheck
    \/ Return

SpecSync == InitSync /\ [][NextSync]_vars

(***************************************************************************)
(* The jobs and the loader on one warehouse: load_table is called between  *)
(* the jobs.  Every kind of remote record exists, and the social           *)
(* credentials are all configured or all missing.                          *)
(***************************************************************************)
FullRemote ==
    [ locations |-> RemoteIds, customers |-> RemoteIds, catalog |-> RemoteIds,
      orders |-> RemoteIds, line_items |-> MaxLineItems, tendered |-> TRUE ]

AllConfigured ==
    [ instagram_access_token |-> TRUE, instagram_business_account_id |-> TRUE,
      facebook_access_token |-> TRUE, facebook_page_id |-> TRUE ]

NotConfigured ==
    [ instagram_access_token |-> FALSE, instagram_business_account_id |-> FALSE,
      facebook_access_token |-> FALSE, facebook_page_id |-> FALSE ]

InitWarehouse ==
    /\ InitSync
    /\ finalizes = FALSE
    /\ remote = FullRemote
    /\ social_config \in { AllConfigured, NotConfigured }

NextWarehouse == NextSync \/ LoadJob

SpecWarehouse == InitWarehouse /\ [][NextWarehouse]_vars

(***************************************************************************)
(* config.py: load_config and validate_environment.                        *)
(***************************************************************************)
\* validate_environment: is_valid, no required variable is unset or empty
ValidateEnvironment(env) == \A v \in RequiredEnvVars : env[v] = "set"

\* a plausible slip: the fields have no default, an unset variable is missing
DatabaseConfigNoDefault(env) == \A v \in DatabaseEnvVars : env[v] = "set"

\* DatabaseConfig(): each field is os.getenv(var, default), so an unset
\* variable yields the default; __post_init__ raises on an empty field
DatabaseConfig(env) == \A v \in DatabaseEnvVars : env[v] # "empty"

\* SquareConfig(): access_token is os.getenv('SQUARE_ACCESS_TOKEN'), and
\* __post_init__ raises if it is None or empty
SquareConfig(env) == env["SQUARE_ACCESS_TOKEN"] = "set"

\* SocialMediaConfig.configured_platforms is not empty
ConfiguredPlatforms(env, config) ==
    \/ HasConfig("instagram", config)
    \/ HasConfig("facebook", config)
    \/ env["TIKTOK_ACCESS_TOKEN"] = "set"

\* load_config returns a configuration: AppConfig.load() did not raise and
\* AppConfig.validate() reported no error
LoadConfig(env, config) ==
    /\ DatabaseConfig(env)
    /\ SquareConfig(env)
    /\ ConfiguredPlatforms(env, config)

(***************************************************************************)
(* load_csv_data.py: main.                                                 *)
(***************************************************************************)
Loader(insights, check_only) ==
    [name |-> "load_csv_data", command |-> "none", insights |-> insights,
     check_only |-> check_only]

\* sys.exit(code)
Exit(code) ==
    /\ exit_code' = code
    /\ main_pc' = "exited"

mainRest == <<db, idx, success_count, attempts, ret, checked, last, rows_read, call>>

\* loader = DataLoader(): a configuration error exits with 1
LoaderInit ==
    /\ program.name = "load_csv_data"
    /\ main_pc = "start"
    /\ IF LoadConfig(environ, social_config)
       THEN /\ main_pc' = "connect_db"
            /\ UNCHANGED exit_code
       ELSE Exit(1)
    /\ UNCHANGED <<environ, program, connects, loader_conn, insighted, jobs_failed>>
    /\ UNCHANGED mainRest
    /\ UNCHANGED cleanVars
    /\ UNCHANGED syncVars

\* if not loader.connect_db(): sys.exit(1); conn and cursor are assigned only
\* when psycopg2.connect succeeds
ConnectDb ==
    /\ program.name = "load_csv_data"
    /\ main_pc = "connect_db"
    /\ connects' = connects + 1
    /\ \E ok \in BOOLEAN :
         IF ok
         THEN /\ loader_conn' = "open"
              /\ main_pc' = "try"
              /\ UNCHANGED exit_code
         ELSE /\ Exit(1)
              /\ UNCHANGED loader_conn
    /\ UNCHANGED <<environ, program, insighted, jobs_failed>>
    /\ UNCHANGED mainRest
    /\ UNCHANGED cleanVars
    /\ UNCHANGED syncVars

\* if args.check_only: loader.check_data_integrity(); the queries are SELECTs
CheckOnly ==
    /\ main_pc = "try"
    /\ program.check_only
    /\ checked' = TRUE
    /\ main_pc' = "finally"
    /\ UNCHANGED <<db, idx, success_count, attempts, ret, last, rows_read, call>>
    /\ UNCHANGED <<environ, program, exit_code, connects, loader_conn, insighted, jobs_failed>>
    /\ UNCHANGED cleanVars
    /\ UNCHANGED syncVars

\* else: success = loader.load_all_data()
MainLoadAll ==
    /\ main_pc = "try"
    /\ ~program.check_only
    /\ StartLoadAll

\* an exception leaves load_all_data (the rollback of load_table's handler
\* raises on a lost connection, or the user interrupts): main's except clause
\* prints it
LoadRaises ==
    /\ main_pc = "try"
    /\ idx \in 1..total_count
    /\ idx' = 0
    /\ main_pc' = "finally"
    /\ UNCHANGED <<db, success_count, attempts, ret, checked, last, rows_read, call>>
    /\ UNCHANGED <<environ, program, exit_code, connects, loader_conn, insighted, jobs_failed>>
    /\ UNCHANGED cleanVars
    /\ UNCHANGED syncVars

\* if success and args.insights: loader.generate_insights(); the queries are
\* SELECTs
InsightsIf ==
    /\ main_pc = "try"
    /\ ret # "none"
    /\ insighted' = (ret = "true" /\ program.insights)
    /\ main_pc' = "finally"
    /\ UNCHANGED <<environ, program, exit_code, connects, loader_conn, jobs_failed>>
    /\ UNCHANGED mainRest
    /\ UNCHANGED cleanVars
    /\ UNCHANGED syncVars

\* finally: loader.close_db(); main returns and the interpreter exits with 0
Finally ==
    /\ program.name = "load_csv_data"
    /\ main_pc = "finally"
    /\ loader_conn' = "closed"
    /\ Exit(0)
    /\ UNCHANGED <<environ, program, connects, insighted, jobs_failed>>
    /\ UNCHANGED mainRest
    /\ UNCHANGED cleanVars
    /\ UNCHANGED syncVars

\* a social configuration load_config accepts
OnePlatform ==
    [ instagram_access_token |-> TRUE, instagram_business_account_id |-> TRUE,
      facebook_access_token |-> FALSE, facebook_page_id |-> FALSE ]

\* the loader is started from the command line, with any arguments, on an
\* empty warehouse; the Square token is set or not
InitMain ==
    /\ program \in { Loader(i, c) : i \in BOOLEAN, c \in BOOLEAN }
    /\ environ \in { AllSet, [AllSet EXCEPT !["SQUARE_ACCESS_TOKEN"] = "unset"] }
    /\ main_pc = "start"
    /\ exit_code = Running
    /\ connects = 0
    /\ loader_conn = "unset"
    /\ insighted = FALSE
    /\ jobs_failed = 0
    /\ db = EmptyDb
    /\ idx = 0
    /\ success_count = 0
    /\ attempts = <<>>
    /\ ret = "none"
    /\ checked = FALSE
    /\ last = NoCall
    /\ rows_read = 0
    /\ call = NotObserved
    /\ NoCleaning
    /\ warehouse_schema = "created"
    /\ finalizes = FALSE
    /\ remote = [ locations |-> {}, customers |-> {}, catalog |-> {}, orders |-> {},
                  line_items |-> 0, tendered |-> FALSE ]
    /\ social_config = OnePlatform
    /\ ext = EmptyExt
    /\ job = "none"
    /\ pc = "idle"
    /\ success = TRUE
    /\ success_results = EmptyDict
    /\ tasks = [ p \in Platforms |-> "none" ]
    /\ open_conns = {}
    /\ conn_users = {}
    /\ analytics_executed = 0
    /\ analytics_committed = 0
    /\ unit_result = NoUnit
    /\ jobs_run = 0
    /\ loads = 0
    /\ job_result = NoResult

NextMain ==
    \/ LoaderInit
    \/ ConnectDb
    \/ CheckOnly
    \/ MainLoadAll
    \/ LoadStep
    \/ LoadRaises
    \/ Summary
    \/ InsightsIf
    \/ Finally

SpecMain == InitMain /\ [][NextMain]_vars

(***************************************************************************)
(* main_sync.py run as a program: one command per process.                 *)
(***************************************************************************)
MainSync(command) ==
    [name |-> "main_sync", command |-> command, insights |-> FALSE,
     check_only |-> FALSE]

\* the commands that run one operation and exit with its result
Commands == { "full", "quick", "health" }

\* validate_environment, load_config and MasterDataSync(config): a missing
\* required variable or a configuration error exits with 1
MainSyncStart ==
    /\ program.name = "main_sync"
    /\ main_pc = "start"
    /\ IF ValidateEnvironment(environ) /\ LoadConfig(environ, social_config)
       THEN /\ main_pc' = "command"
            /\ UNCHANGED exit_code
       ELSE Exit(1)
    /\ UNCHANGED <<environ, program, connects, loader_conn, insighted, jobs_failed>>
    /\ UNCHANGED mainRest
    /\ UNCHANGED cleanVars
    /\ UNCHANGED syncVars

Command(c) ==
    /\ program.name = "main_sync"
    /\ main_pc = "command"
    /\ program.command = c
    /\ jobs_run = 0

\* success = asyncio.run(master_sync.full_synchronization())
CommandFull == Command("full") /\ StartFull

\* success = master_sync.quick_sync()
CommandQuick == Command("quick") /\ StartQuick

\* health = master_sync.health_check()
CommandHealth == Command("health") /\ StartHealth

\* a plausible slip: the result is printed and the process ends normally
ExitStatusZero(ok) == 0

\* sys.exit(0 if success else 1), sys.exit(0 if health['overall'] else 1)
ExitStatus(ok) == IF ok THEN 0 ELSE 1

\* the operation has returned; the command exits with its status
CommandExit ==
    /\ program.name = "main_sync"
    /\ main_pc = "command"
    /\ program.command \in Commands
    /\ pc = "return"
    /\ Exit(ExitStatus(job_result.value))
    /\ UNCHANGED <<environ, program, connects, loader_conn, insighted, jobs_failed>>
    /\ UNCHANGED mainRest
    /\ UNCHANGED cleanVars
    /\ UNCHANGED syncVars

\* the steps of a running job
JobStep ==
    \/ SyncLocationsStep
    \/ SyncCustomersStep
    \/ SyncCatalogItemsStep
    \/ SyncOrdersStep
    \/ SquareFullSyncEnd
    \/ SocialFullSync
    \/ RunTask
    \/ Gathered
    \/ Analytics
    \/ QuickSyncEnd
    \/ HealthCheck

\* the environments the commands are followed under: complete, or with one
\* required variable unset
CliEnvirons == { AllSet, [AllSet EXCEPT !["DB_PASSWORD"] = "unset"] }

InitCli ==
    /\ SyncStart(Configs)
    /\ finalizes = TRUE
    /\ program \in { MainSync(c) : c \in Commands }
    /\ environ \in CliEnvirons
    /\ main_pc = "start"
    /\ exit_code = Running
    /\ connects = 0
    /\ loader_conn = "unset"
    /\ insighted = FALSE
    /\ jobs_failed = 0

NextCli ==
    \/ MainSyncStart
    \/ CommandFull
    \/ CommandQuick
    \/ CommandHealth
    \/ JobStep
    \/ CommandExit

SpecCli == InitCli /\ [][NextCli]_vars

(***************************************************************************)
(* main_sync.py schedule: setup_scheduler registers the three jobs, and    *)
(* run_scheduler calls schedule.run_pending() once a minute; run_pending   *)
(* calls each due job and drops what it returns.  The user's interrupt can *)
(* arrive at any moment, inside a job as well.                             *)
(***************************************************************************)
\* master_sync.setup_scheduler(); master_sync.run_scheduler()
CommandSchedule ==
    /\ program.name = "main_sync"
    /\ main_pc = "command"
    /\ program.command = "schedule"
    /\ main_pc' = "run_scheduler"
    /\ UNCHANGED <<environ, program, exit_code, connects, loader_conn, insighted,
                   jobs_failed>>
    /\ UNCHANGED mainRest
    /\ UNCHANGED cleanVars
    /\ UNCHANGED syncVars

\* while True: schedule.run_pending(); time.sleep(60)
InLoop == program.name = "main_sync" /\ main_pc = "run_scheduler"

\* schedule.every().day.at("02:00").do(lambda: asyncio.run(...)) is due
RunFull == InLoop /\ StartFull

\* schedule.every(4).hours.do(self.quick_sync) is due
RunQuick == InLoop /\ StartQuick

\* schedule.every().hour.do(self.health_check) is due
RunHealth == InLoop /\ StartHealth

\* the job r came from failed: an exception left it, or it returned False
\* (health_check: a status that is not healthy overall)
Failed(r) == r.raised \/ ~r.value

\* the job's locals and what was observed of its units are gone
JobOver ==
    /\ job' = "none"
    /\ pc' = "idle"
    /\ success' = TRUE
    /\ success_results' = EmptyDict
    /\ tasks' = [ p \in Platforms |-> "none" ]
    /\ analytics_executed' = 0
    /\ analytics_committed' = 0
    /\ unit_result' = NoUnit
    /\ open_conns' = {}
    /\ conn_users' = {}
    /\ job_result' = NoResult
    /\ UNCHANGED <<db, ext, jobs_run, loads>>
    /\ UNCHANGED envVars
    /\ UNCHANGED loaderRest
    /\ UNCHANGED cleanVars

\* the job returns to run_pending, which drops its result; an exception that
\* left the job would leave run_pending and the loop: run_scheduler logs and
\* re-raises it, and __main__ exits with 1
JobReturned ==
    /\ InLoop
    /\ pc = "return"
    /\ JobOver
    /\ jobs_failed' = IF Failed(job_result) THEN jobs_failed + 1 ELSE jobs_failed
    /\ IF job_result.raised THEN Exit(1) ELSE UNCHANGED <<main_pc, exit_code>>
    /\ UNCHANGED <<environ, program, connects, loader_conn, insighted>>

\* Ctrl+C.  KeyboardInterrupt is no Exception, so no handler of a running
\* job catches it: run_scheduler logs "Scheduler stopped by user" and
\* returns, and the process ends with 0
KeyboardInterrupt ==
    /\ InLoop
    /\ JobOver
    /\ Exit(0)
    /\ UNCHANGED <<environ, program, connects, loader_conn, insighted, jobs_failed>>

InitSchedule ==
    /\ SyncStart(SchedulerConfigs)
    /\ finalizes = TRUE
    /\ program = MainSync("schedule")
    /\ environ \in CliEnvirons
    /\ main_pc = "start"
    /\ exit_code = Running
    /\ connects = 0
    /\ loader_conn = "unset"
    /\ insighted = FALSE
    /\ jobs_failed = 0

NextSchedule ==
    \/ MainSyncStart
    \/ CommandSchedule
    \/ RunFull
    \/ RunQuick
    \/ RunHealth
    \/ JobStep
    \/ JobReturned
    \/ KeyboardInterrupt

SpecSchedule == InitSchedule /\ [][NextSchedule]_vars

(***************************************************************************)
(* A DataLoader object used directly: connect_db and load_table called by  *)
(* a program other than main.  loader_conn is "unset" while the object has *)
(* no conn and cursor attributes (__init__ assigns none, and connect_db    *)
(* assigns them only after psycopg2.connect returned), "none" if they were *)
(* None, "open" once connect_db succeeded.                                 *)
(***************************************************************************)
\* self.conn does not exist: evaluating it raises AttributeError
AttributeError(d) ==
    [ok |-> FALSE, db |-> d, outcome |-> "AttributeError", calls |-> <<>>,
     discarded |-> 0]

\* if self.conn is None or self.cursor is None: return False
NotEstablished(d) ==
    [ok |-> FALSE, db |-> d, outcome |-> "not_established", calls |-> <<>>,
     discarded |-> 0]

\* a plausible slip: __init__ sets conn and cursor to None
LoadTableOnNone(conn, t, f, d) ==
    IF conn \in {"unset", "none"} THEN NotEstablished(d) ELSE LoadTable(t, f, d)

\* load_table on a loader whose attributes are in the state conn
LoadTableOn(conn, t, f, d) ==
    IF conn = "unset" THEN AttributeError(d)
    ELSE IF conn = "none" THEN NotEstablished(d)
    ELSE LoadTable(t, f, d)

\* loader = DataLoader()
InitLoader ==
    /\ Init
    /\ environ = AllSet

\* loader.connect_db() called by the program; it returns True or False
DirectConnectDb ==
    /\ program = NoProgram
    /\ connects = 0
    /\ connects' = 1
    /\ \E ok \in BOOLEAN : loader_conn' = IF ok THEN "open" ELSE loader_conn
    /\ UNCHANGED <<environ, program, main_pc, exit_code, insighted, jobs_failed>>
    /\ UNCHANGED mainRest
    /\ UNCHANGED cleanVars
    /\ UNCHANGED syncVars

\* loader.load_table(table_name, csv_file) called by the program
DirectLoadTable ==
    /\ program = NoProgram
    /\ call.nth = 0
    /\ \E t \in Loaded : \E f \in Files(t) :
         /\ call' = [table |-> t, file |-> f, nth |-> 1]
         /\ db' = LoadTableOn(loader_conn, t, f, db).db
         /\ last' = Observed(t, LoadTableOn(loader_conn, t, f, db))
    /\ UNCHANGED <<idx, success_count, attempts, ret, checked, rows_read>>
    /\ UNCHANGED mainVars
    /\ UNCHANGED cleanVars
    /\ UNCHANGED syncVars

NextLoader == DirectConnectDb \/ DirectLoadTable

SpecLoader == InitLoader /\ [][NextLoader]_vars

(***************************************************************************)
(* The start of every entry point, under every environment.                *)
(***************************************************************************)
EntryPoints ==
    { Loader(i, c) : i \in BOOLEAN, c \in BOOLEAN }
      \cup { MainSync(c) : c \in Commands \cup {"schedule"} }

EmptyRemote ==
    [ locations |-> {}, customers |-> {}, catalog |-> {}, orders |-> {},
      line_items |-> 0, tendered |-> FALSE ]

InitStartup ==
    /\ warehouse_schema = "created"
    /\ finalizes = FALSE
    /\ remote = EmptyRemote
    /\ SyncStart(Configs)
    /\ program \in EntryPoints
    /\ environ \in [ EnvVars -> EnvValues ]
    /\ main_pc = "start"
    /\ exit_code = Running
    /\ connects = 0
    /\ loader_conn = "unset"
    /\ insighted = FALSE
    /\ jobs_failed = 0

NextStartup ==
    \/ LoaderInit
    \/ ConnectDb
    \/ MainSyncStart
    \/ CommandFull
    \/ CommandQuick
    \/ CommandHealth

SpecStartup == InitStartup /\ [][NextStartup]_vars

(***************************************************************************)
(* Properties of the loader.                                               *)
(***************************************************************************)
LoadStepTaken == Len(attempts') = Len(attempts) + 1

EarlierTables(i) == { LoadOrder[j] : j \in 1..(i - 1) }

\* C1: the load order matches the declared foreign keys: whenever load_table
\* is called for a table, every table of the load order that it references
\* has been loaded strictly before it in the same run.
C1_LoadOrderRespectsForeignKeys ==
    \A i \in 1..Len(attempts) :
        \A p \in Parents(attempts[i]) \cap Loaded :
            \E j \in 1..(i - 1) : attempts[j] = p

\* a run loaded orders and then payments, both with rows, and the whole order ran
C1_Witness ==
    /\ Len(attempts) = total_count
    /\ db["orders"].keys # {}
    /\ db["payments"].keys # {}
    /\ \E i, j \in 1..Len(attempts) :
          i < j /\ attempts[i] = "orders" /\ attempts[j] = "payments"

\* C2: when load_table fails with an exception during a table's batch, the
\* table holds no row of this batch afterwards, and every row committed by
\* the earlier tables of the run is still there.
C2_FailedBatchRolledBack ==
    [][ (LoadStepTaken /\ last'.outcome = "error")
            => /\ db'[last'.table] = db[last'.table]
               /\ \A u \in EarlierTables(Len(attempts')) : db'[u] = db[u] ]_vars

\* a batch raised after an earlier statement of it had inserted a row, in a
\* run whose earlier tables had committed rows
C2_Witness ==
    /\ last.outcome = "error"
    /\ last.discarded > 0
    /\ last.calls = <<"execute", "execute", "rollback">>
    /\ \E u \in EarlierTables(Len(attempts)) : db[u].keys # {} \/ db[u].gen > 0

C7_ReturnsTrueIffAllLoaded ==
    ret # "none" =>
        /\ (ret = "true" <=> success_count = Len(attempts))
        /\ (ret = "true" <=> Len(attempts) - success_count = 0 /\ attempts = LoadOrder)
        /\ (checked <=> ret = "true")

\* a run in which a single table failed returned False
C7_Witness ==
    /\ ret = "false"
    /\ attempts = LoadOrder
    /\ success_count = total_count - 1

(***************************************************************************)
(* Properties of one load_table call (SpecReload).                         *)
(***************************************************************************)
FirstCall == call.nth = 0 /\ call'.nth = 1

SecondCall == call.nth = 1 /\ call'.nth = 2

\* row i of the file has a key that is already stored or that an earlier row
\* of the file carries: it violates the primary-key / unique constraint
Duplicate(t, rows, i, d) ==
    /\ rows[i].id # NULL
    /\ \/ rows[i].id \in d[t].keys
       \/ \E j \in 1..(i - 1) : rows[j].id = rows[i].id

\* row i references a key its parent table does not hold
Dangling(t, rows, i, d) == ~FkHolds(t, rows[i], d)

KeysIn(rows) == { rows[i].id : i \in { j \in 1..Len(rows) : rows[j].id # NULL } }

Unkeyed(rows) == Cardinality({ i \in 1..Len(rows) : rows[i].id = NULL })

OthersUntouched(t) == \A u \in Tables \ {t} : db'[u] = db[u]

Missing(v) == v.tag \in {"none", "nan"}

StringList(v) ==
    /\ v.tag = "list"
    /\ \A i \in 1..Len(v.items) : v.items[i].tag = "str"

\* C8: a missing (None or NaN) cell of a column of any declared type (array,
\* nested, boolean, scalar) is cleaned to NULL, never to a sentinel or default.
C8_MissingCleansToNull ==
    (cleaned # NotCleaned /\ Missing(cell)) => cleaned = None

\* C9: every non-missing value of an array column (a native sequence, a string
\* holding a list literal, or a bare scalar) is cleaned to a native list whose
\* elements are all strings.
C9_ArrayValueCleansToStringList ==
    (cleaned # NotCleaned /\ column \in list_columns /\ ~Missing(cell))
        => StringList(cleaned)

\* C10: cleaning an array column is idempotent on a native list of strings of
\* any length (empty, one element, two or more): the list comes back unchanged.
C10_CleanListUnchanged ==
    (cleaned # NotCleaned /\ column \in list_columns /\ cell \in NativeLists)
        => cleaned = cell

\* a string cell in brackets that is not a list literal
Malformed(v) ==
    /\ v.tag = "str"
    /\ Len(v.s) > 0 /\ v.s[1] = "[" /\ v.s[Len(v.s)] = "]"
    /\ LiteralEval(v.s).tag # "list"

\* C11: a malformed string of an array column (in brackets, but not a valid
\* list literal) is cleaned to the one-element list holding the raw string.
C11_MalformedFallsBackToRawString ==
    (cleaned # NotCleaned /\ column \in list_columns /\ Malformed(cell))
        => cleaned = PyList(<<cell>>)

\* C12: for every string cell of the measurements column the cleaning does not
\* raise; it yields a mapping when the string is valid JSON and NULL when it
\* is not, so the cleaned value is always a mapping or NULL.
C12_JsonCleansToMappingOrNull ==
    (cleaned # NotCleaned /\ column \in json_columns /\ cell.tag = "str")
        => /\ cleaned # Raised
           /\ JsonLoads(cell.s) # Raised => cleaned.tag = "dict"
           /\ JsonLoads(cell.s) = Raised => cleaned = None

\* a string cell holding a list literal
ListLiteral(v) == v.tag = "str" /\ LiteralEval(v.s).tag = "list"

\* a cell holding a mapping, native or serialized
HoldsMapping(v) == v.tag = "dict" \/ (v.tag = "str" /\ JsonLoads(v.s).tag = "dict")

MappingOf(v) == IF v.tag = "dict" THEN v ELSE JsonLoads(v.s)

\* C13 as stated: for array columns and the JSON column the submitted value is
\* the native form (a list, a mapping), whether the cell held the native value
\* or its serialized form; no serialized composite is submitted.
C13_NativeFormSubmitted ==
    submitted # NotCleaned
        => /\ (column \in list_columns /\ (cell \in NativeLists \/ ListLiteral(cell)))
                  => submitted.tag = "list"
           /\ (column \in json_columns /\ HoldsMapping(cell))
                  => submitted.tag = "dict"

\* C13, amended: an array cell is submitted as a native list (a list literal
\* as the list it denotes); a mapping of the JSON column is serialized again
\* by json.dumps and submitted as JSON text.
C13_ListsNativeMappingsAsJsonText ==
    submitted # NotCleaned
        => /\ (column \in list_columns /\ ListLiteral(cell))
                  => submitted = LiteralEval(cell.s)
           /\ (column \in list_columns /\ cell \in NativeLists)
                  => submitted.tag = "list"
           /\ (column \in json_columns /\ HoldsMapping(cell))
                  => submitted = PyStr(JsonDumps(MappingOf(cell)))

\* a serialized mapping was parsed and submitted as a different JSON text
C13_Witness ==
    /\ column \in json_columns
    /\ cell.tag = "str"
    /\ HoldsMapping(cell)
    /\ submitted.tag = "str"
    /\ submitted.s # cell.s

\* the source representations of False: the boolean, the number, the strings
FalseCells ==
    { PyBool(FALSE, TRUE), PyBool(FALSE, FALSE), PyInt(0, TRUE),
      PyStr(<<"F", "a", "l", "s", "e">>), PyStr(<<"0">>) }

\* the source representations of True
TrueCells ==
    { PyBool(TRUE, TRUE), PyBool(TRUE, FALSE), PyInt(1, TRUE),
      PyStr(<<"T", "r", "u", "e">>), PyStr(<<"1">>) }

\* C14: every cleaned value of a boolean column is a boolean, the same one for
\* every source representation of a truth value (the boolean False and the
\* string "False" both clean to False).
C14_BooleanWhateverRepresentation ==
    (cleaned # NotCleaned /\ column \in bool_columns)
        => /\ cleaned.tag = "bool"
           /\ cell \in FalseCells => cleaned = PyBool(FALSE, FALSE)
           /\ cell \in TrueCells => cleaned = PyBool(TRUE, FALSE)

(***************************************************************************)
(* Properties of the sync jobs (SpecSync).                                 *)
(***************************************************************************)
AdapterResults == { "square", "social_media" }

AnalyticsExecutes == analytics_executed' > analytics_executed

\* C15: in full_synchronization the Square adapter and then the social-media
\* adapter have both returned before any analytics statement is executed (the
\* social adapter's result is stored only after the Square adapter's, and a
\* statement is executed only with both results stored and no task pending),
\* and no analytics statement is executed when either adapter reported failure.
C15_AnalyticsAfterBothAdaptersSucceeded ==
    [][ /\ ( /\ job = "full"
             /\ "social_media" \in DOMAIN success_results'
             /\ "social_media" \notin DOMAIN success_results )
           => "square" \in DOMAIN success_results
        /\ AnalyticsExecutes
           => /\ job = "full"
              /\ DOMAIN success_results = AdapterResults
              /\ \A p \in Platforms : tasks[p] # "pending"
              /\ success_results["square"]
              /\ success_results["social_media"] ]_vars

\* both adapters reported success and every analytics statement was executed
C15_Witness ==
    /\ job = "full"
    /\ analytics_executed = Len(AnalyticsStatements)
    /\ unit_result.unit = "generate_cross_platform_analytics"
    /\ unit_result.ok
    /\ DOMAIN success_results = AdapterResults

RowCount(d, t) == Cardinality(d[t].keys) + d[t].gen

\* the Square sync operations, with the remote records and the table of each
SquareSyncs ==
    { [unit |-> "sync_locations", records |-> remote.locations, table |-> "locations"],
      [unit |-> "sync_customers", records |-> remote.customers, table |-> "customers"],
      [unit |-> "sync_catalog_items", records |-> remote.catalog,
       table |-> "inventory_items"],
      [unit |-> "sync_orders", records |-> remote.orders, table |-> "orders"] }

\* the step is a run of the sync over records an earlier run has stored
Resynced(u) ==
    /\ pc = u.unit
    /\ pc' # pc
    /\ u.records # {}
    /\ u.records \subseteq ext[u.table]

\* C16: re-running an adapter sync over the same remote records adds no row to
\* any warehouse table: a Square sync that runs again over records an earlier
\* run has stored leaves the number of rows of every table as it was.
C16_ResyncAddsNoRow ==
    [][ \A u \in SquareSyncs :
          Resynced(u) => \A t \in Tables : RowCount(db', t) = RowCount(db, t) ]_vars

(***************************************************************************)
(* Properties of the warehouse under the jobs and the loader               *)
(* (SpecWarehouse).                                                        *)
(***************************************************************************)
\* C17: no loader or adapter operation ever deletes a committed row: in every
\* step of load_table, of an adapter sync, of the aggregate update and of the
\* analytics, every table keeps the row keys it had (the keys the files
\* supplied, the values drawn from its SERIAL sequence, and the external
\* identifiers stored with them).
C17_CommittedKeysOnlyGrow ==
    [][ \A t \in Tables :
          /\ db[t].keys \subseteq db'[t].keys
          /\ db[t].gen <= db'[t].gen
          /\ ext[t] \subseteq ext'[t] ]_vars

\* the loader and the Square adapter have both stored customers, and the
\* analytics have just run over them, after an aggregate update
C17_Witness ==
    /\ loads = 1
    /\ db["customers"].keys # {}
    /\ ext["customers"] # {}
    /\ ext["orders"] # {}
    /\ success_results = [square |-> TRUE, social_media |-> TRUE]
    /\ unit_result.unit = "generate_cross_platform_analytics"
    /\ unit_result.ok

(***************************************************************************)
(* Properties of the connections of the jobs (SpecSync).                   *)
(***************************************************************************)
\* C18: every warehouse connection a unit of work opens is closed by the time
\* the unit returns, on every path (success, empty remote result, error): no
\* unit of the running job has returned with its connection still open.
C18_ConnectionClosedAtReturn == open_conns = {}

\* C19: when the Instagram and Facebook syncs run under asyncio.gather, in
\* every interleaving each task uses only a connection it opened itself, and
\* no connection is used by two tasks. conn_users holds the pairs
\* <<task that opened the connection, task that used it>> of the running job.
C19_TaskUsesOwnConnection ==
    /\ \A cu \in conn_users : cu[1] = cu[2]
    /\ \A a, b \in conn_users : a[1] = b[1] => a[2] = b[2]

\* both tasks of the gather have run, and each opened and used a connection
C19_Witness ==
    /\ pc = "gather"
    /\ \A p \in Platforms : tasks[p] \in {"true", "false"}
    /\ conn_users = { <<p, p>> : p \in Platforms }

(***************************************************************************)
(* Properties of the adapters' statements against the schema (SpecSync).   *)
(***************************************************************************)
\* the units of work that issue the adapters' insert and upsert statements
InsertingUnits ==
    { "sync_locations", "sync_customers", "sync_catalog_items", "sync_orders",
      "ensure_social_account_exists" }

\* C20: the adapters write to the schema create_tables creates: every table,
\* column and conflict target an adapter's insert or upsert statement names is
\* defined by create_tables, so on a warehouse that has exactly the created
\* schema no adapter unit ends with a statement rejected as undefined.
C20_AdaptersFitCreatedSchema ==
    (warehouse_schema = "created" /\ unit_result.unit \in InsertingUnits)
        => unit_result.error # "undefined"

\* what is committed after execute_values returned r on the warehouse d
CommittedAfter(d, r) == IF r.raised THEN Rollback(d, r.tx) ELSE Commit(d, r.tx)

\* load_table is called with a file that can be read
ReadableCall == call.nth' = call.nth + 1 /\ call.file.kind = "csv"

\* C25: chunking does not affect the outcome of load_table: for every page
\* size the committed result is the one of a single statement over all the
\* rows, and it is the one the call leaves; if any chunk fails, no row of an
\* earlier chunk of the same table stays committed.
C25_ChunkingKeepsOutcome ==
    [][ ReadableCall =>
          /\ \A page_size \in 1..MaxFileLen :
                /\ CommittedAfter(db, ExecuteValues(call.table, call.file.rows,
                                                    page_size, db))
                     = CommittedAfter(db, ExecuteValues(call.table, call.file.rows,
                                                       MaxFileLen, db))
                /\ ExecuteValues(call.table, call.file.rows, page_size, db).raised
                     = ExecuteValues(call.table, call.file.rows, MaxFileLen, db).raised
          /\ db' = CommittedAfter(db, ExecuteValues(call.table, call.file.rows,
                                                    MaxFileLen, db))
          /\ last'.outcome = "error" => db' = db ]_vars

\* the first chunk of a file was executed, the second raised, and the row
\* of the first chunk was rolled back with it
C25_Witness ==
    /\ call.nth > 0
    /\ last.outcome = "error"
    /\ last.calls = <<"execute", "execute", "rollback">>
    /\ last.discarded > 0

(***************************************************************************)
(* Properties of a DataLoader used directly (SpecLoader).                  *)
(***************************************************************************)
\* C26: load_table called on a DataLoader whose database connection was
\* never established (connect_db not called, or connect_db returned False)
\* returns False without raising and without reading the CSV file.
C26_LoadTableWithoutConnectionReturnsFalse ==
    (call.nth = 1 /\ loader_conn # "open")
        => /\ last.outcome = "not_established"
           /\ last.calls = <<>>
           /\ db = EmptyDb

(***************************************************************************)
(* Properties of the loader's command line (SpecMain).                     *)
(***************************************************************************)
LoaderExited == program.name = "load_csv_data" /\ main_pc = "exited"

\* C21: the loader's exit code reflects overall success: a run of main that
\* loads (no --check-only) ends with exit code 0 exactly when load_all_data
\* returned True; a run in which a table failed to load, or in which an
\* unexpected error was caught, ends with a non-zero exit code.
C21_ExitCodeReflectsSuccess ==
    (LoaderExited /\ ~program.check_only) => (exit_code = 0 <=> ret = "true")

\* a step in which check_data_integrity, or generate_insights, runs
ChecksRun == checked' /\ ~checked

InsightsRun == insighted' /\ ~insighted

\* C24 as stated: in a loader run the integrity-check queries are executed
\* only after all tables loaded successfully, and the insight queries only
\* after all tables loaded successfully and insights were requested; neither
\* step changes any warehouse row.
C24_ChecksOnlyAfterSuccessfulLoad ==
    [][ /\ ChecksRun => (ret' = "true" /\ success_count = total_count)
        /\ InsightsRun => (ret = "true" /\ program.insights)
        /\ (ChecksRun \/ InsightsRun) => db' = db ]_vars

\* C24, amended: in a loader run without --check-only the integrity-check
\* queries are executed only after all tables loaded successfully, and with
\* --check-only they are executed without any load; the insight queries are
\* executed only after all tables loaded successfully and insights were
\* requested; neither step changes any warehouse row.
C24_ChecksAfterLoadOrCheckOnly ==
    [][ /\ (ChecksRun /\ ~program.check_only)
              => (ret' = "true" /\ success_count = total_count)
        /\ (ChecksRun /\ program.check_only) => (ret = "none" /\ attempts = <<>>)
        /\ InsightsRun => (ret = "true" /\ program.insights /\ checked)
        /\ (ChecksRun \/ InsightsRun) => db' = db ]_vars

\* a run has loaded rows into every table it was given, checked them and
\* printed the insights
C24_Witness ==
    /\ LoaderExited
    /\ ret = "true"
    /\ checked
    /\ insighted
    /\ Stored(db) > 0

(***************************************************************************)
(* Properties of the orchestrator's commands (SpecCli).                    *)
(***************************************************************************)
CommandExited ==
    /\ program.name = "main_sync"
    /\ program.command \in Commands
    /\ main_pc = "exited"

\* C22: each of the commands full, quick and health exits with code 0
\* exactly when the operation it ran reported success (full_synchronization
\* True, quick_sync True, health 'overall' True), and with code 1 otherwise.
C22_CommandExitCode ==
    CommandExited =>
        /\ exit_code \in {0, 1}
        /\ exit_code = 0 <=> (job_result.returned /\ job_result.value)
        /\ (job = "health" /\ job_result.returned)
               => job_result.value = job_result.health.overall

\* each command has exited with 0 after a success and with 1 after a failure
C22_Witness ==
    /\ CommandExited
    /\ job = "full"
    /\ job_result.returned
    /\ job_result.value
    /\ exit_code = 0

(***************************************************************************)
(* Properties of the start of the entry points (SpecStartup).              *)
(***************************************************************************)
MissingRequired == { v \in RequiredEnvVars : environ[v] # "set" }

\* C23: a missing required environment value (DB_HOST, DB_NAME, DB_USER,
\* DB_PASSWORD or SQUARE_ACCESS_TOKEN) is fatal at startup for every entry
\* point: the process makes no database connection and starts no operation,
\* and when it has exited its exit code is 1.
C23_MissingRequiredIsFatal ==
    MissingRequired # {} =>
        /\ connects = 0
        /\ job = "none"
        /\ main_pc \in {"start", "exited"}
        /\ main_pc = "exited" => exit_code = 1

(***************************************************************************)
(* Properties of the jobs' return values (SpecSync).                       *)
(***************************************************************************)
\* full_synchronization returns in this step
FullReturns == job = "full" /\ pc = "analytics" /\ pc' = "return"

AnalyticsRaised ==
    unit_result'.unit = "generate_cross_platform_analytics" /\ ~unit_result'.ok

\* C27: full_synchronization never raises, and returns True only if the
\* Square adapter succeeded, the social-media adapter succeeded and the
\* analytics step completed and committed; an exception in the analytics
\* step rolls back all analytics statements of that run and makes the result
\* False.
C27_FullSynchronizationResult ==
    [][ FullReturns =>
          /\ job_result'.returned
          /\ ~job_result'.raised
          /\ job_result'.value =>
                /\ success_results["square"]
                /\ success_results["social_media"]
                /\ unit_result'.unit = "generate_cross_platform_analytics"
                /\ unit_result'.ok
                /\ unit_result'.conn = "closed"
                /\ analytics_executed' = Len(AnalyticsStatements)
                /\ analytics_committed' = Len(AnalyticsStatements)
          /\ AnalyticsRaised =>
                /\ ~job_result'.value
                /\ analytics_committed' = 0
                /\ db' = db
                /\ ext' = ext ]_vars

\* both adapters succeeded, an analytics statement raised after another had
\* been executed, and full_synchronization returned False
C27_Witness ==
    /\ job = "full"
    /\ pc = "return"
    /\ success_results = [square |-> TRUE, social_media |-> TRUE]
    /\ unit_result.unit = "generate_cross_platform_analytics"
    /\ unit_result.error = "statement"
    /\ analytics_executed > 1
    /\ job_result.returned
    /\ ~job_result.value

(***************************************************************************)
(* Properties of SocialMediaSync.full_sync (SpecSync).                     *)
(***************************************************************************)
\* SocialMediaSync.full_sync returns in this step
SocialFullSyncReturns ==
    /\ pc \in {"social_full_sync", "gather"}
    /\ pc' \in {"analytics", "quick_aggregates"}

\* the platform tasks full_sync appends to its task list
Launched == { p \in Platforms : Task(p, social_config) }

\* a task finishes in this step with a false result
TaskFails(p) == tasks[p] = "pending" /\ tasks'[p] = "false"

\* C28: SocialMediaSync.full_sync returns True if and only if every platform
\* task it launched returned True; a task that raises or returns False makes
\* the result False but does not stop the other launched task, which has run
\* to completion when full_sync returns; with no platform token configured
\* the result is True.
C28_SocialFullSyncResult ==
    [][ /\ SocialFullSyncReturns =>
              /\ \A p \in Launched : tasks[p] \in {"true", "false"}
              /\ success_results'["social_media"]
                    = (\A p \in Launched : tasks[p] = "true")
              /\ Launched = {} => success_results'["social_media"]
        /\ \A p \in Platforms :
              TaskFails(p) =>
                /\ pc' = "gather"
                /\ \A q \in Platforms \ {p} : tasks'[q] = tasks[q] ]_vars

\* both tasks were launched, the first to run failed, the other ran as well,
\* and every task has finished
C28_Witness ==
    /\ pc = "gather"
    /\ Launched = Platforms
    /\ \A p \in Platforms : tasks[p] = "false"
    /\ \A p \in Platforms : \E c \in Platforms : <<c, p>> \in conn_users

(***************************************************************************)
(* Properties of MasterDataSync.health_check (SpecCli).                    *)
(***************************************************************************)
\* health_check returns in this step
HealthReturns == job = "health" /\ pc = "health_check" /\ pc' = "return"

\* the flag of health_status that reports a platform's API
ApiFlag(p) == IF p = "instagram" THEN "instagram_api" ELSE "facebook_api"

\* C29: health_check never raises and always returns a status with the
\* database, square_api, instagram_api, facebook_api and overall flags;
\* overall is True exactly when both database and square_api are True,
\* whatever the Instagram and Facebook results, and an API that is not
\* configured is reported False.
C29_HealthStatusFlags ==
    [][ HealthReturns =>
          /\ job_result'.returned
          /\ ~job_result'.raised
          /\ DOMAIN job_result'.health =
                {"database", "square_api", "instagram_api", "facebook_api", "overall"}
          /\ \A k \in DOMAIN job_result'.health : job_result'.health[k] \in BOOLEAN
          /\ job_result'.health.database = unit_result'.ok
          /\ job_result'.health.overall
                = (job_result'.health.database /\ job_result'.health.square_api)
          /\ \A p \in Platforms :
                ~HasConfig(p, social_config) => ~job_result'.health[ApiFlag(p)] ]_vars

\* health_check returned an overall True although the configured Instagram
\* API did not answer, and Facebook, with a token but no page id, is
\* reported False
C29_Witness ==
    /\ job = "health"
    /\ pc = "return"
    /\ job_result.returned
    /\ job_result.health.overall
    /\ HasConfig("instagram", social_config)
    /\ ~job_result.health.instagram_api
    /\ social_config.facebook_access_token
    /\ ~HasConfig("facebook", social_config)
    /\ ~job_result.health.facebook_api

(***************************************************************************)
(* Properties of the scheduler (SpecSchedule).                             *)
(***************************************************************************)
\* C30: under the scheduler the full sync, quick sync and health check jobs
\* never execute at the same time: while a job runs no job is started, and
\* the running job is replaced by none only.  A job that fails does not stop
\* the scheduler loop: when it returns, the loop is where it starts the due
\* jobs, and the loop ends only with the user's interrupt, which exits with 0.
C30_SchedulerRunsJobsInTurn ==
    [][ /\ job # "none" =>
              /\ jobs_run' = jobs_run
              /\ job' \in {job, "none"}
        /\ (InLoop /\ pc = "return" /\ Failed(job_result) /\ exit_code' # 0) =>
              /\ main_pc' = "run_scheduler"
              /\ exit_code' = Running
              /\ job' = "none"
        /\ InLoop => (main_pc' = "run_scheduler" \/ exit_code' = 0) ]_vars

\* a job has failed, and a later job has been run to its return
C30_Witness ==
    /\ InLoop
    /\ jobs_failed > 0
    /\ job # "none"
    /\ pc = "return"
    /\ job_result.returned

====
